---- MODULE Spec2Model ----
(***************************************************************************)
(* The number-theoretic engine of libttak's aliquot scripts:               *)
(*   apps/aliquot-swipe-amicable-by-3/scripts/analyze.py       (analyze)   *)
(*   apps/aliquot-swipe-amicable-by-3/scripts/deep_analyze.py  (deep)      *)
(*   apps/aliquot-tracker/scripts/analyze_all.py               (all)       *)
(* Primality testing, factorization, the divisor sum and the aliquot       *)
(* drivers.  Python integers are unbounded; every value of this model      *)
(* stays below 2^31 and every modulus below 2^30, where the arithmetic     *)
(* below is exact.                                                         *)
(***************************************************************************)
EXTENDS Integers, Sequences, FiniteSets, TLC

VARIABLES
    prog,       \* the entry point that is running
    pc,         \* its position
    arg,        \* the argument of the running is_probable_prime / factorize call
    n,          \* factorize: the local n (the residual after trial division)
    res,        \* factorize: the Counter res / the dict fac
    stack,      \* factorize: the pending calls of rec, innermost first
    rho_n,      \* pollard_rho: its argument
    rho_d,      \* pollard_rho: the gcd d of its last attempt
    restarts,   \* pollard_rho: attempts of the running call that ended with d = n
    sig,        \* sigma_from_factors / sigma_from_factorization: the value returned
    verdict,    \* is_probable_prime: the value returned
    loop_end,   \* is_probable_prime: the statement that ended the call
    pointers,   \* pollard_rho, rho: x, y, d, c and n of the while d == 1 loop
    seed,       \* driver: seed
    max_steps,  \* driver: max_steps (run_aliquot_verify), steps (run_aliquot, run_seed)
    step_limit, \* run_seed: step_limit, << >> for None and <<k>> for k
    step,       \* driver: the loop variable (step / i): iterations completed
    cur,        \* driver: cur (run_aliquot_verify), n (run_aliquot, run_seed)
    seen,       \* run_aliquot_verify: the dict seen
    peak,       \* driver: peak
    peak_step,  \* driver: peak_step
    result,     \* driver: the record returned
    traj,       \* history: the values computed so far, traj[k + 1] = value(k)
    batch,      \* main: the records of the track file not read yet
    processed,  \* main: processed
    max_seeds,  \* main: args.max_seeds
    report      \* main: the rows appended to the report, as the results written

vars == <<prog, pc, arg, n, res, stack, rho_n, rho_d, restarts, sig, verdict, loop_end, pointers, seed,
          max_steps, step_limit, step, cur, seen, peak, peak_step, result, traj,
          batch, processed, max_seeds, report>>

(***************************************************************************)
(* Bounds of the model.                                                    *)
(***************************************************************************)
\* is_probable_prime and the factorizers are run on 0..MaxN and on ExtraInputs
MaxN == 2100
\* pollard_rho draws c from 1..MaxC and x from 0..MaxX (random.randrange)
MaxC == 3
MaxX == 3
\* restarts of one pollard_rho call that the model follows
MaxRestarts == 2
\* the drivers are run on the seeds 0..MaxSeed and on ExtraSeeds
MaxSeed == 100
\* the step budgets are 0..MaxSteps
MaxSteps == 5
\* run_seed's step_limit is None or in 0..MaxLimit
MaxLimit == 3
\* arguments up to which the model takes the divisor sum of a factorization
MaxSigma == 110000
\* main reads track files of up to MaxBatch records
MaxBatch == 2

\* the moduli on which the loop of pollard_rho is followed for every c and x
MaxModulus == 24

\* the candidates of the wheel from 41 to 41 + MaxWheel are checked one by one
MaxWheel == 60

(***************************************************************************)
(* Exact arithmetic.                                                       *)
(***************************************************************************)
\* one round of double-and-add on s = [acc, a, b]: acc + a * b stays the same mod m
mul_round(s, m) ==
    [acc |-> IF s.b % 2 = 1 THEN (s.acc + s.a) % m ELSE s.acc,
     a   |-> (s.a + s.a) % m,
     b   |-> s.b \div 2]

\* while b > 0: <round>, for at most k rounds
RECURSIVE mul_rounds(_, _, _)
mul_rounds(s, m, k) ==
    IF s.b = 0 \/ k = 0 THEN s
    ELSE IF k = 1 THEN mul_round(s, m)
    ELSE mul_rounds(mul_rounds(s, m, k \div 2), m, k - (k \div 2))

\* while b > 0: <round>, k rounds at a time
RECURSIVE mul_loop(_, _, _)
mul_more(t, m, k) == IF t.b = 0 THEN t ELSE mul_loop(t, m, 2 * k)
mul_loop(s, m, k) == mul_more(mul_rounds(s, m, k), m, k)

\* (a * b) % m of Python's unbounded integers, for 0 <= a, b and 0 < m < 2^30
mul_mod(a, b, m) ==
    IF a <= 46340 /\ b <= 46340 THEN (a * b) % m
    ELSE mul_loop([acc |-> 0, a |-> a % m, b |-> b % m], m, 8).acc

\* one round of binary exponentiation on s = [r, b, e]: r * b^e stays the same mod m
pow_round(s, m) ==
    [r |-> IF s.e % 2 = 1 THEN mul_mod(s.r, s.b, m) ELSE s.r,
     b |-> mul_mod(s.b, s.b, m),
     e |-> s.e \div 2]

\* while e > 0: <round>, for at most k rounds
RECURSIVE pow_rounds(_, _, _)
pow_rounds(s, m, k) ==
    IF s.e = 0 \/ k = 0 THEN s
    ELSE IF k = 1 THEN pow_round(s, m)
    ELSE pow_rounds(pow_rounds(s, m, k \div 2), m, k - (k \div 2))

\* while e > 0: <round>, k rounds at a time
RECURSIVE pow_loop(_, _, _)
pow_more(t, m, k) == IF t.e = 0 THEN t ELSE pow_loop(t, m, 2 * k)
pow_loop(s, m, k) == pow_more(pow_rounds(s, m, k), m, k)

\* pow(a, e, m)
pow_mod(a, e, m) == pow_loop([r |-> 1 % m, b |-> a % m, e |-> e], m, 8).r

\* math.gcd
RECURSIVE gcd(_, _)
gcd(a, b) == IF b = 0 THEN a ELSE gcd(b, a % b)

\* abs
abs(v) == IF v < 0 THEN 0 - v ELSE v

\* int.bit_length: the number of bits of the absolute value
RECURSIVE bits(_)
bits(v) == IF v = 0 THEN 0 ELSE 1 + bits(v \div 2)

bit_length(v) == bits(abs(v))

(***************************************************************************)
(* is_probable_prime, three copies.                                        *)
(***************************************************************************)
small == <<2, 3, 5, 7, 11, 13, 17, 19, 23, 29, 31, 37>>

\* a variant of bases with the first base only, which 2047 = 23 * 89 passes
bases_two == <<2>>

bases == <<2, 325, 9375, 28178, 450775, 9780504, 1795265022>>

\* for p in small: n == p -> True, n % p == 0 -> False; "none" when the loop ends
RECURSIVE small_loop(_, _)
small_loop(v, i) ==
    IF i > Len(small) THEN "none"
    ELSE IF v = small[i] THEN "prime"
    ELSE IF v % small[i] = 0 THEN "composite"
    ELSE small_loop(v, i + 1)

\* d, s = n - 1, 0; while d even: d >>= 1; s += 1   (v >= 1)
RECURSIVE odd_part(_)
odd_part(v) == IF v % 2 = 0 THEN odd_part(v \div 2) ELSE v

RECURSIVE two_exponent(_)
two_exponent(v) == IF v % 2 = 0 THEN 1 + two_exponent(v \div 2) ELSE 0

\* for _ in range(k): x = (x * x) % m; if x == m - 1: break   -- TRUE iff it breaks
RECURSIVE squarings(_, _, _)
squared(x2, k, m) == IF x2 = m - 1 THEN TRUE ELSE squarings(x2, k - 1, m)
squarings(x, k, m) == IF k <= 0 THEN FALSE ELSE squared(mul_mod(x, x, m), k, m)

\* the witness whose power is x = pow(a, d, n) passes: x is 1 or n - 1, or the
\* squarings reach n - 1
passes(x, s, v) == IF x = 1 \/ x = v - 1 THEN TRUE ELSE squarings(x, s - 1, v)

\* analyze.py: for a in bases, from index i on; FALSE is "return False"
RECURSIVE bases_loop(_, _, _, _)
bases_loop(v, d, s, i) ==
    IF i > Len(bases) THEN TRUE
    ELSE IF bases[i] % v = 0 THEN bases_loop(v, d, s, i + 1)
    ELSE IF passes(pow_mod(bases[i] % v, d, v), s, v) THEN bases_loop(v, d, s, i + 1)
    ELSE FALSE

is_probable_prime(v) ==
    IF v < 2 THEN FALSE
    ELSE IF small_loop(v, 1) = "prime" THEN TRUE
    ELSE IF small_loop(v, 1) = "composite" THEN FALSE
    ELSE bases_loop(v, odd_part(v - 1), two_exponent(v - 1), 1)

\* analyze_all.py: the same loop
RECURSIVE bases_loop_all(_, _, _, _)
bases_loop_all(v, d, s, i) ==
    IF i > Len(bases) THEN TRUE
    ELSE IF bases[i] % v = 0 THEN bases_loop_all(v, d, s, i + 1)
    ELSE IF passes(pow_mod(bases[i] % v, d, v), s, v) THEN bases_loop_all(v, d, s, i + 1)
    ELSE FALSE

is_probable_prime_all(v) ==
    IF v < 2 THEN FALSE
    ELSE IF small_loop(v, 1) = "prime" THEN TRUE
    ELSE IF small_loop(v, 1) = "composite" THEN FALSE
    ELSE bases_loop_all(v, odd_part(v - 1), two_exponent(v - 1), 1)

\* deep_analyze.py: the inner function check(a)
check(a, v, d, s) == passes(pow_mod(a, d, v), s, v)

\* deep_analyze.py: for a in [...]: a % n == 0 -> return True; not check(a) -> return False
RECURSIVE bases_loop_deep(_, _, _, _)
bases_loop_deep(v, d, s, i) ==
    IF i > Len(bases) THEN TRUE
    ELSE IF bases[i] % v = 0 THEN TRUE
    ELSE IF ~check(bases[i], v, d, s) THEN FALSE
    ELSE bases_loop_deep(v, d, s, i + 1)

is_probable_prime_deep(v) ==
    IF v < 2 THEN FALSE
    ELSE IF small_loop(v, 1) = "prime" THEN TRUE
    ELSE IF small_loop(v, 1) = "composite" THEN FALSE
    ELSE bases_loop_deep(v, odd_part(v - 1), two_exponent(v - 1), 1)

\* the statement that ends a call of is_probable_prime: "low" is n < 2, "small"
\* the loop over small, "zero" a return on a base a with a % n == 0, "check" the
\* return False on base number base, "end" the return True after the loop
not_ended == [by |-> "", base |-> 0]

\* analyze.py: a %= n; if a == 0: continue
RECURSIVE bases_end(_, _, _, _)
bases_end(v, d, s, i) ==
    IF i > Len(bases) THEN [by |-> "end", base |-> 0]
    ELSE IF bases[i] % v = 0 THEN bases_end(v, d, s, i + 1)
    ELSE IF passes(pow_mod(bases[i] % v, d, v), s, v) THEN bases_end(v, d, s, i + 1)
    ELSE [by |-> "check", base |-> i]

is_probable_prime_end(v) ==
    IF v < 2 THEN [by |-> "low", base |-> 0]
    ELSE IF small_loop(v, 1) # "none" THEN [by |-> "small", base |-> 0]
    ELSE bases_end(v, odd_part(v - 1), two_exponent(v - 1), 1)

\* analyze_all.py: the same loop
RECURSIVE bases_end_all(_, _, _, _)
bases_end_all(v, d, s, i) ==
    IF i > Len(bases) THEN [by |-> "end", base |-> 0]
    ELSE IF bases[i] % v = 0 THEN bases_end_all(v, d, s, i + 1)
    ELSE IF passes(pow_mod(bases[i] % v, d, v), s, v) THEN bases_end_all(v, d, s, i + 1)
    ELSE [by |-> "check", base |-> i]

is_probable_prime_all_end(v) ==
    IF v < 2 THEN [by |-> "low", base |-> 0]
    ELSE IF small_loop(v, 1) # "none" THEN [by |-> "small", base |-> 0]
    ELSE bases_end_all(v, odd_part(v - 1), two_exponent(v - 1), 1)

\* deep_analyze.py: if a % n == 0: return True; if not check(a): return False
RECURSIVE bases_end_deep(_, _, _, _)
bases_end_deep(v, d, s, i) ==
    IF i > Len(bases) THEN [by |-> "end", base |-> 0]
    ELSE IF bases[i] % v = 0 THEN [by |-> "zero", base |-> i]
    ELSE IF ~check(bases[i], v, d, s) THEN [by |-> "check", base |-> i]
    ELSE bases_end_deep(v, d, s, i + 1)

is_probable_prime_deep_end(v) ==
    IF v < 2 THEN [by |-> "low", base |-> 0]
    ELSE IF small_loop(v, 1) # "none" THEN [by |-> "small", base |-> 0]
    ELSE bases_end_deep(v, odd_part(v - 1), two_exponent(v - 1), 1)


(***************************************************************************)
(* Factorizations: a Counter / dict is a function from its keys.           *)
(***************************************************************************)
empty_dict == [q \in {} |-> 0]

\* res[p] += k  /  fac[p] = fac.get(p, 0) + k
add_factor(fac, p, k) ==
    [q \in (DOMAIN fac) \cup {p} |->
        (IF q \in DOMAIN fac THEN fac[q] ELSE 0) + (IF q = p THEN k ELSE 0)]

\* while v % p == 0: v //= p; cnt += 1   -- the final cnt   (v >= 1)
RECURSIVE strip_count(_, _)
strip_count(v, p) == IF v % p = 0 THEN 1 + strip_count(v \div p, p) ELSE 0

\* the final v of the same loop
RECURSIVE strip_rest(_, _)
strip_rest(v, p) == IF v % p = 0 THEN strip_rest(v \div p, p) ELSE v

(***************************************************************************)
(* The slow/fast pointer loop of pollard_rho, rho and the fallback of      *)
(* split.                                                                  *)
(***************************************************************************)
\* a variant of f that forgets v
f_stuck(v, c, m) == c % m

\* f(v) = (v * v + c) % n
f(v, c, m) == (mul_mod(v, v, m) + c) % m

\* d = gcd(abs(x - y), n), with the new x and y
floyd_state(x1, y1, m) == [x |-> x1, y |-> y1, d |-> gcd(abs(x1 - y1), m)]

\* one round: x = f(x); y = f(f(y)); d = gcd(abs(x - y), n)
floyd_round(s, c, m) == floyd_state(f(s.x, c, m), f(f(s.y, c, m), c, m), m)

\* while d == 1: <round>, for at most k rounds
RECURSIVE floyd_rounds(_, _, _, _)
floyd_rounds(s, c, m, k) ==
    IF s.d # 1 \/ k = 0 THEN s
    ELSE IF k = 1 THEN floyd_round(s, c, m)
    ELSE floyd_rounds(floyd_rounds(s, c, m, k \div 2), c, m, k - (k \div 2))

\* while d == 1: <round>, k rounds at a time
RECURSIVE floyd_loop(_, _, _, _)
floyd_more(t, c, m, k) == IF t.d # 1 THEN t ELSE floyd_loop(t, c, m, 2 * k)
floyd_loop(s, c, m, k) == floyd_more(floyd_rounds(s, c, m, k), c, m, k)

\* y = x; d = 1; while d == 1: ...   -- the d it leaves with
floyd(m, c, x0) == floyd_loop([x |-> x0, y |-> x0, d |-> 1], c, m, 8).d

\* the loop round by round: no loop has started
no_pointers == [x |-> 0, y |-> 0, d |-> 0, c |-> 0, n |-> 0, rounds |-> 0]

\* y = x; d = 1, for the c and x drawn
floyd_start(m, c, x0) == [x |-> x0, y |-> x0, d |-> 1, c |-> c, n |-> m, rounds |-> 0]

\* a variant of floyd_next that takes the gcd of two equal pointers to be 1
floyd_next_blind(s) ==
    [x |-> f(s.x, s.c, s.n), y |-> f(f(s.y, s.c, s.n), s.c, s.n),
     d |-> IF f(s.x, s.c, s.n) = f(f(s.y, s.c, s.n), s.c, s.n)
           THEN 1
           ELSE floyd_round(s, s.c, s.n).d,
     c |-> s.c, n |-> s.n, rounds |-> s.rounds + 1]

\* x = f(x); y = f(f(y)); d = math.gcd(abs(x - y), n)
floyd_next(s) ==
    [x |-> floyd_round(s, s.c, s.n).x, y |-> floyd_round(s, s.c, s.n).y,
     d |-> floyd_round(s, s.c, s.n).d,
     c |-> s.c, n |-> s.n, rounds |-> s.rounds + 1]

(***************************************************************************)
(* deep_analyze.py: factorize_trial_then_pollard_rho.                      *)
(***************************************************************************)
limit == 20000

\* for p in small_primes: if n % p == 0: <strip p>; add_factor(p, cnt)
RECURSIVE trial_small(_, _, _)
trial_small(v, fac, i) ==
    IF i > Len(small) THEN [n |-> v, fac |-> fac]
    ELSE IF v % small[i] = 0
         THEN trial_small(strip_rest(v, small[i]),
                          add_factor(fac, small[i], strip_count(v, small[i])), i + 1)
         ELSE trial_small(v, fac, i + 1)

\* a variant of wheel_body whose step becomes 4 and stays 4
wheel_body_fours(s) ==
    [n    |-> IF s.n % s.f = 0 THEN strip_rest(s.n, s.f) ELSE s.n,
     fac  |-> IF s.n % s.f = 0 THEN add_factor(s.fac, s.f, strip_count(s.n, s.f))
              ELSE s.fac,
     f    |-> s.f + s.step,
     step |-> 4]

\* the body of the wheel loop: s = [n, fac, f, step]
wheel_body(s) ==
    [n    |-> IF s.n % s.f = 0 THEN strip_rest(s.n, s.f) ELSE s.n,
     fac  |-> IF s.n % s.f = 0 THEN add_factor(s.fac, s.f, strip_count(s.n, s.f))
              ELSE s.fac,
     f    |-> s.f + s.step,
     step |-> 6 - s.step]

\* f * f <= n and f <= limit
wheel_test(s) == s.f * s.f <= s.n /\ s.f <= limit

\* while f * f <= n and f <= limit: <body>, for at most k rounds
RECURSIVE wheel_rounds(_, _)
wheel_rounds(s, k) ==
    IF ~wheel_test(s) \/ k = 0 THEN s
    ELSE IF k = 1 THEN wheel_body(s)
    ELSE wheel_rounds(wheel_rounds(s, k \div 2), k - (k \div 2))

\* while f * f <= n and f <= limit: <body>, k rounds at a time
RECURSIVE wheel_loop(_, _)
wheel_more(t, k) == IF ~wheel_test(t) THEN t ELSE wheel_loop(t, 2 * k)
wheel_loop(s, k) == wheel_more(wheel_rounds(s, k), k)

\* f = 41; step = 2; while ...   on t = [n, fac], the state after the small primes
wheel(t) == wheel_loop([n |-> t.n, fac |-> t.fac, f |-> 41, step |-> 2], 8)

\* the inner function rho: x = y = 2, c = 1
rho(m) ==
    IF m % 2 = 0 THEN 2
    ELSE IF m % 3 = 0 THEN 3
    ELSE floyd(m, 1, 2)
\* a variant of fallback_offsets with no second attempt after rho fails
fallback_none == << >>


fallback_offsets == <<3, 5, 7, 11, 13>>

\* for c in [3, 5, 7, 11, 13]: ...; if 1 < d2 < n_: d = d2; break   -- d, which
\* stays n_ if no offset breaks
RECURSIVE fallback(_, _)
fallback_try(d2, m, i) == IF 1 < d2 /\ d2 < m THEN d2 ELSE fallback(m, i + 1)
fallback(m, i) ==
    IF i > Len(fallback_offsets) THEN m
    ELSE fallback_try(floyd(m, fallback_offsets[i], 2), m, i)

\* d = rho(n_); if d == n_: <fallback>   -- the d that split recurses on
retry(d, m) == IF d = m THEN fallback(m, 1) ELSE d
split_divisor(m) == retry(rho(m), m)

\* the inner function split, on st = [fac, raised].  split(d) with d = n_ is the
\* same call again: Python ends that recursion with RecursionError (raised).
RECURSIVE split(_, _)
split_on(d, m, st) ==
    IF d = m THEN [st EXCEPT !.raised = TRUE]
    ELSE split(m \div d, split(d, st))
split(m, st) ==
    IF st.raised THEN st
    ELSE IF m = 1 THEN st
    ELSE IF is_probable_prime_deep(m) THEN [st EXCEPT !.fac = add_factor(@, m, 1)]
    ELSE split_on(split_divisor(m), m, st)

\* from "if n == 1: return fac" on, w = [n, fac, ...] the state after the wheel
after_wheel(w) ==
    IF w.n = 1 THEN [fac |-> w.fac, raised |-> FALSE]
    ELSE IF is_probable_prime_deep(w.n)
         THEN [fac |-> add_factor(w.fac, w.n, 1), raised |-> FALSE]
         ELSE split(w.n, [fac |-> w.fac, raised |-> FALSE])

\* the dict returned, or raised
factorize_trial_then_pollard_rho(v) ==
    IF v < 2 THEN [fac |-> empty_dict, raised |-> FALSE]
    ELSE after_wheel(wheel(trial_small(v, empty_dict, 1)))

(***************************************************************************)
(* sigma, two copies.                                                      *)
(***************************************************************************)
\* a variant of geometric whose division is not exact: the numerator keeps its 1
geometric_rounded(p, e) == (p ^ (e + 1)) \div (p - 1)

\* a variant of geometric that stops the series one power early
geometric_short(p, e) == (p ^ e - 1) \div (p - 1)

\* (pow(p, e + 1) - 1) // (p - 1)
geometric(p, e) == (p ^ (e + 1) - 1) \div (p - 1)

\* analyze.py, analyze_all.py: s = 1; for p, e in f.items(): s *= ...
RECURSIVE sigma_items(_, _)
sigma_items(fc, keys) ==
    IF keys = {} THEN 1
    ELSE LET p == CHOOSE q \in keys : TRUE
         IN  geometric(p, fc[p]) * sigma_items(fc, keys \ {p})

sigma_from_factors(fc) == sigma_items(fc, DOMAIN fc)

\* deep_analyze.py
RECURSIVE sigma_items_deep(_, _)
sigma_items_deep(fac, keys) ==
    IF keys = {} THEN 1
    ELSE LET p == CHOOSE q \in keys : TRUE
         IN  ((p ^ (fac[p] + 1) - 1) \div (p - 1)) * sigma_items_deep(fac, keys \ {p})

sigma_from_factorization(fac) == sigma_items_deep(fac, DOMAIN fac)

(***************************************************************************)
(* The inputs of the model.                                                *)
(***************************************************************************)
\* Carmichael numbers and strong pseudoprimes, divisors of the witness bases,
\* products of primes above 37 (pollard_rho) and above limit (rho, split)
ExtraInputs ==
    {2821, 3277, 4033, 4681, 6601, 8321, 8911, 14089, 41041, 407521, 25326001,
     299210837, 1073741789,
     2209, 3526, 13254, 68921, 72283, 82861, 107113,
     400440121, 400640231, 407363927, 415648481}

Inputs == (0 .. MaxN) \cup ExtraInputs

no_result ==
    [seed |-> 0, steps |-> 0, ended |-> "", final |-> 0, peak |-> 0,
     peak_step |-> 0, peak_bits |-> 0]

FactorizeIdle ==
    /\ n = 0
    /\ res = empty_dict
    /\ stack = << >>
    /\ rho_n = 0
    /\ rho_d = 0
    /\ restarts = 0
    /\ sig = 0

MainIdle ==
    /\ batch = << >>
    /\ processed = 0
    /\ max_seeds = 0
    /\ report = << >>

DriverIdle ==
    /\ seed = 0
    /\ max_steps = 0
    /\ step_limit = << >>
    /\ step = 0
    /\ cur = 0
    /\ seen = empty_dict
    /\ peak = 0
    /\ peak_step = 0
    /\ result = no_result
    /\ traj = << >>
    /\ MainIdle

factorize_vars == <<n, res, stack, rho_n, rho_d, restarts, sig>>

main_vars == <<batch, processed, max_seeds, report>>

driver_vars ==
    <<seed, max_steps, step_limit, step, cur, seen, peak, peak_step, result, traj,
      main_vars>>

(***************************************************************************)
(* Calls of is_probable_prime.                                             *)
(***************************************************************************)
InitPrime ==
    /\ prog \in {"is_probable_prime", "is_probable_prime_deep", "is_probable_prime_all"}
    /\ pc = "call"
    /\ arg \in Inputs
    /\ verdict = FALSE
    /\ loop_end = not_ended
    /\ pointers = no_pointers
    /\ FactorizeIdle
    /\ DriverIdle

call_is_probable_prime ==
    /\ prog = "is_probable_prime"
    /\ pc = "call"
    /\ verdict' = is_probable_prime(arg)
    /\ loop_end' = is_probable_prime_end(arg)
    /\ pc' = "done"
    /\ UNCHANGED <<prog, arg, pointers, factorize_vars, driver_vars>>

call_is_probable_prime_deep ==
    /\ prog = "is_probable_prime_deep"
    /\ pc = "call"
    /\ verdict' = is_probable_prime_deep(arg)
    /\ loop_end' = is_probable_prime_deep_end(arg)
    /\ pc' = "done"
    /\ UNCHANGED <<prog, arg, pointers, factorize_vars, driver_vars>>

call_is_probable_prime_all ==
    /\ prog = "is_probable_prime_all"
    /\ pc = "call"
    /\ verdict' = is_probable_prime_all(arg)
    /\ loop_end' = is_probable_prime_all_end(arg)
    /\ pc' = "done"
    /\ UNCHANGED <<prog, arg, pointers, factorize_vars, driver_vars>>

NextPrime ==
    \/ call_is_probable_prime
    \/ call_is_probable_prime_deep
    \/ call_is_probable_prime_all

SpecPrime == InitPrime /\ [][NextPrime]_vars

(***************************************************************************)
(* analyze.py, analyze_all.py: factorize, its inner rec, and pollard_rho.  *)
(***************************************************************************)
\* a variant of strip_small that divides by each small prime once at most
RECURSIVE strip_small_once(_, _, _)
strip_small_once(v, fc, i) ==
    IF i > Len(small) THEN [n |-> v, res |-> fc]
    ELSE IF v % small[i] = 0
         THEN strip_small_once(v \div small[i], add_factor(fc, small[i], 1), i + 1)
         ELSE strip_small_once(v, fc, i + 1)


\* for p in [2, ..., 37]: while n % p == 0: res[p] += 1; n //= p
RECURSIVE strip_small(_, _, _)
strip_small(v, fc, i) ==
    IF i > Len(small) THEN [n |-> v, res |-> fc]
    ELSE IF v % small[i] = 0
         THEN strip_small(v \div small[i], add_factor(fc, small[i], 1), i)
         ELSE strip_small(v, fc, i + 1)

\* random.randrange(1, n) and random.randrange(0, n), as far as the model draws
draws_c(m) == {c \in 1 .. MaxC : c < m}
draws_x(m) == {x \in 0 .. MaxX : x < m}

\* "if n > 1: rec(n)", "return res", with t = [n, res] the state after the loop
stripped(t) ==
    /\ n' = t.n
    /\ res' = t.res
    /\ stack' = IF t.n > 1 THEN <<t.n>> ELSE << >>
    /\ pc' = IF t.n > 1 THEN "rec" ELSE "done"

\* factorize up to the call of rec: the early return, the trial divisions
factorize_enter ==
    /\ prog \in {"factorize", "run_aliquot", "run_seed"}
    /\ pc = "call"
    /\ IF arg < 2
       THEN /\ n' = arg
            /\ res' = empty_dict
            /\ stack' = << >>
            /\ pc' = "done"
       ELSE stripped(strip_small(arg, empty_dict, 1))
    /\ UNCHANGED <<prog, arg, rho_n, rho_d, restarts, sig, verdict, loop_end, pointers,
                   driver_vars>>

\* a variant of rec_on that takes the divisor pollard_rho returned for a prime
rec_on_trusting(m) ==
    IF m = 1
    THEN /\ stack' = Tail(stack)
         /\ UNCHANGED <<pc, res, rho_n, rho_d, restarts>>
    ELSE IF m = rho_d \/ is_probable_prime(m)
    THEN /\ res' = add_factor(res, m, 1)
         /\ stack' = Tail(stack)
         /\ UNCHANGED <<pc, rho_n, rho_d, restarts>>
    ELSE IF m % 2 = 0 \/ m % 3 = 0
    THEN /\ rho_n' = m
         /\ rho_d' = IF m % 2 = 0 THEN 2 ELSE 3
         /\ restarts' = 0
         /\ stack' = <<rho_d', m \div rho_d'>> \o Tail(stack)
         /\ UNCHANGED <<pc, res>>
    ELSE /\ rho_n' = m
         /\ rho_d' = 1
         /\ restarts' = 0
         /\ pc' = "rho"
         /\ UNCHANGED <<res, stack>>

\* rec(m) up to its call of pollard_rho(m): the shortcuts of pollard_rho return
\* d at once (and rec calls rec(d), then rec(m // d)), otherwise its loop starts
rec_on(m) ==
    IF m = 1
    THEN /\ stack' = Tail(stack)
         /\ UNCHANGED <<pc, res, rho_n, rho_d, restarts>>
    ELSE IF is_probable_prime(m)
    THEN /\ res' = add_factor(res, m, 1)
         /\ stack' = Tail(stack)
         /\ UNCHANGED <<pc, rho_n, rho_d, restarts>>
    ELSE IF m % 2 = 0 \/ m % 3 = 0
    THEN /\ rho_n' = m
         /\ rho_d' = IF m % 2 = 0 THEN 2 ELSE 3
         /\ restarts' = 0
         /\ stack' = <<rho_d', m \div rho_d'>> \o Tail(stack)
         /\ UNCHANGED <<pc, res>>
    ELSE /\ rho_n' = m
         /\ rho_d' = 1
         /\ restarts' = 0
         /\ pc' = "rho"
         /\ UNCHANGED <<res, stack>>

\* the innermost pending call of rec
rec ==
    /\ pc = "rec"
    /\ stack # << >>
    /\ rec_on(Head(stack))
    /\ UNCHANGED <<prog, arg, n, sig, verdict, loop_end, pointers, driver_vars>>

\* a variant of attempted that returns d whatever it is
attempted_any(d) ==
    /\ rho_d' = d
    /\ stack' = <<d, rho_n \div d>> \o Tail(stack)
    /\ pc' = "rec"
    /\ UNCHANGED restarts

\* a variant of attempted in which rec forgets its second call, rec(m // d)
attempted_no_cofactor(d) ==
    /\ rho_d' = d
    /\ IF d # rho_n
       THEN /\ stack' = <<d>> \o Tail(stack)
            /\ pc' = "rec"
            /\ UNCHANGED restarts
       ELSE /\ restarts < MaxRestarts
            /\ restarts' = restarts + 1
            /\ UNCHANGED <<stack, pc>>

\* "if d != n: return d" and, in rec, rec(d); rec(m // d); else the next pass
attempted(d) ==
    /\ rho_d' = d
    /\ IF d # rho_n
       THEN /\ stack' = <<d, rho_n \div d>> \o Tail(stack)
            /\ pc' = "rec"
            /\ UNCHANGED restarts
       ELSE /\ restarts < MaxRestarts
            /\ restarts' = restarts + 1
            /\ UNCHANGED <<stack, pc>>

\* one pass of pollard_rho's while True loop: draw c and x, run the inner loop
pollard_rho_attempt ==
    /\ pc = "rho"
    /\ \E c \in draws_c(rho_n), x \in draws_x(rho_n) : attempted(floyd(rho_n, c, x))
    /\ UNCHANGED <<prog, arg, n, res, rho_n, sig, verdict, loop_end, pointers, driver_vars>>

\* rec(n) has returned: return res
factorize_return ==
    /\ pc = "rec"
    /\ stack = << >>
    /\ pc' = "done"
    /\ UNCHANGED <<prog, arg, factorize_vars, verdict, loop_end, pointers, driver_vars>>

\* r is what factorize_trial_then_pollard_rho(arg) returns or raises
returned(r) ==
    /\ res' = r.fac
    /\ pc' = IF r.raised THEN "raised" ELSE "done"

\* a call of deep_analyze.py's factorize_trial_then_pollard_rho
call_factorize_trial_then_pollard_rho ==
    /\ prog = "factorize_trial_then_pollard_rho"
    /\ pc = "call"
    /\ returned(factorize_trial_then_pollard_rho(arg))
    /\ UNCHANGED <<prog, arg, n, stack, rho_n, rho_d, restarts, sig, verdict, loop_end,
                   pointers, driver_vars>>

InitFactorize ==
    /\ prog \in {"factorize", "factorize_trial_then_pollard_rho", "sum_proper_divisors"}
    /\ pc = "call"
    /\ arg \in Inputs
    /\ verdict = FALSE
    /\ loop_end = not_ended
    /\ pointers = no_pointers
    /\ FactorizeIdle
    /\ DriverIdle

\* sigma_from_factors(factorize(arg)), the product aliquot_next subtracts from
call_sigma_from_factors ==
    /\ prog = "factorize"
    /\ pc = "done"
    /\ arg <= MaxSigma
    /\ sig' = sigma_from_factors(res)
    /\ pc' = "summed"
    /\ UNCHANGED <<prog, arg, n, res, stack, rho_n, rho_d, restarts, verdict, loop_end,
                   pointers, driver_vars>>

\* sigma_from_factorization(factorize_trial_then_pollard_rho(arg))
call_sigma_from_factorization ==
    /\ prog = "factorize_trial_then_pollard_rho"
    /\ pc = "done"
    /\ arg <= MaxSigma
    /\ sig' = sigma_from_factorization(res)
    /\ pc' = "summed"
    /\ UNCHANGED <<prog, arg, n, res, stack, rho_n, rho_d, restarts, verdict, loop_end,
                   pointers, driver_vars>>

\* a variant of sum_proper_divisors_low that takes sigma of the empty dict minus n
sum_proper_divisors_unguarded ==
    /\ prog = "sum_proper_divisors"
    /\ pc = "call"
    /\ arg <= 1
    /\ sig' = sigma_from_factorization(empty_dict) - arg
    /\ pc' = "summed"
    /\ UNCHANGED <<prog, arg, n, res, stack, rho_n, rho_d, restarts, verdict, loop_end,
                   pointers, driver_vars>>

\* sum_proper_divisors(n): if n <= 1: return 0
sum_proper_divisors_low ==
    /\ prog = "sum_proper_divisors"
    /\ pc = "call"
    /\ arg <= 1
    /\ sig' = 0
    /\ pc' = "summed"
    /\ UNCHANGED <<prog, arg, n, res, stack, rho_n, rho_d, restarts, verdict, loop_end,
                   pointers, driver_vars>>

\* sum_proper_divisors(n): fac = factorize_trial_then_pollard_rho(n)
sum_proper_divisors_factorize ==
    /\ prog = "sum_proper_divisors"
    /\ pc = "call"
    /\ arg > 1
    /\ arg <= MaxSigma
    /\ returned(factorize_trial_then_pollard_rho(arg))
    /\ UNCHANGED <<prog, arg, n, stack, rho_n, rho_d, restarts, sig, verdict, loop_end,
                   pointers, driver_vars>>

\* sum_proper_divisors(n): sig = sigma_from_factorization(fac); return sig - n
sum_proper_divisors_return ==
    /\ prog = "sum_proper_divisors"
    /\ pc = "done"
    /\ sig' = sigma_from_factorization(res) - arg
    /\ pc' = "summed"
    /\ UNCHANGED <<prog, arg, n, res, stack, rho_n, rho_d, restarts, verdict, loop_end,
                   pointers, driver_vars>>

NextFactorize ==
    \/ sum_proper_divisors_low
    \/ sum_proper_divisors_factorize
    \/ sum_proper_divisors_return
    \/ factorize_enter
    \/ rec
    \/ pollard_rho_attempt
    \/ factorize_return
    \/ call_factorize_trial_then_pollard_rho
    \/ call_sigma_from_factors
    \/ call_sigma_from_factorization

SpecFactorize == InitFactorize /\ [][NextFactorize]_vars

(***************************************************************************)
(* One attempt of pollard_rho (analyze.py, analyze_all.py) and one call of *)
(* rho (deep_analyze.py), a round of the while d == 1 loop at a time.      *)
(***************************************************************************)
\* moduli above MaxModulus, followed for the draws of the model only
ExtraModuli == {1681, 1763, 2209}

\* c = random.randrange(1, n); x = random.randrange(0, n); y = x; d = 1
pollard_rho_starts ==
    {floyd_start(m, c, x) : m \in 2 .. MaxModulus, c \in 1 .. MaxModulus - 1,
                            x \in 0 .. MaxModulus - 1}
        \cup {floyd_start(m, c, x) : m \in ExtraModuli, c \in 1 .. MaxC, x \in 0 .. MaxX}

\* x = 2; y = 2; c = 1; d = 1, and c in [3, 5, 7, 11, 13] in split
rho_starts ==
    {floyd_start(m, c, 2) : m \in (2 .. MaxModulus) \cup ExtraModuli,
                            c \in {1} \cup {fallback_offsets[i] : i \in 1 .. Len(fallback_offsets)}}

InitFloyd ==
    /\ prog \in {"pollard_rho", "rho"}
    /\ pc = "loop"
    /\ pointers \in IF prog = "pollard_rho"
                    THEN {s \in pollard_rho_starts : s.c < s.n /\ s.x < s.n}
                    ELSE rho_starts
    /\ arg = 0
    /\ verdict = FALSE
    /\ loop_end = not_ended
    /\ FactorizeIdle
    /\ DriverIdle

\* while d == 1: one more round (followed for n + 1 rounds at most)
floyd_step ==
    /\ prog \in {"pollard_rho", "rho"}
    /\ pc = "loop"
    /\ pointers.d = 1
    /\ pointers.rounds <= pointers.n
    /\ pointers' = floyd_next(pointers)
    /\ UNCHANGED <<prog, pc, arg, verdict, loop_end, factorize_vars, driver_vars>>

\* d != 1: the loop is left, with d
floyd_exit ==
    /\ prog \in {"pollard_rho", "rho"}
    /\ pc = "loop"
    /\ pointers.d # 1
    /\ pc' = "done"
    /\ UNCHANGED <<prog, arg, verdict, loop_end, pointers, factorize_vars, driver_vars>>

NextFloyd == floyd_step \/ floyd_exit

SpecFloyd == InitFloyd /\ [][NextFloyd]_vars

(***************************************************************************)
(* The drivers: run_aliquot_verify, run_aliquot, run_seed.                 *)
(***************************************************************************)
\* a variant of summed that returns sig, not sig - n
summed_sigma(r, v) ==
    [value |-> IF r.raised THEN 0 ELSE sigma_from_factorization(r.fac),
     raised |-> r.raised]

\* a variant of summed that subtracts the other way round, n - sig
summed_reversed(r, v) ==
    [value |-> IF r.raised THEN 0 ELSE v - sigma_from_factorization(r.fac),
     raised |-> r.raised]

\* sig - n, with r what factorize_trial_then_pollard_rho(n) returns or raises
summed(r, v) ==
    [value |-> IF r.raised THEN 0 ELSE sigma_from_factorization(r.fac) - v,
     raised |-> r.raised]

sum_proper_divisors(v) ==
    IF v <= 1 THEN [value |-> 0, raised |-> FALSE]
    ELSE summed(factorize_trial_then_pollard_rho(v), v)

\* a variant of classify_terminal for which a prime is not terminal
classify_terminal_low(v) ==
    IF v = 1 THEN "terminated"
    ELSE IF v = 0 THEN "terminated"
    ELSE "open"

classify_terminal(v) ==
    IF v = 1 THEN "terminated"
    ELSE IF v = 0 THEN "terminated"
    ELSE IF is_probable_prime_all(v) THEN "terminated"
    ELSE "open"

min(a, b) == IF b < a THEN b ELSE a

\* a variant of lim that ignores step_limit
lim_steps == max_steps

\* the number of iterations of the driver's for loop
lim ==
    IF prog = "run_seed" /\ step_limit # << >>
    THEN min(max_steps, step_limit[1])
    ELSE max_steps

\* seeds below 1, amicable and sociable starts, products of primes above 37
ExtraSeeds == {-7, -1, 220, 284, 562, 1681, 1763, 2209}

Seeds == (0 .. MaxSeed) \cup ExtraSeeds

InitDriver ==
    /\ prog \in {"run_aliquot_verify", "run_aliquot", "run_seed"}
    /\ pc = "loop"
    /\ seed \in Seeds
    /\ max_steps \in 0 .. MaxSteps
    /\ step_limit \in IF prog = "run_seed"
                      THEN {<< >>} \cup {<<k>> : k \in 0 .. MaxLimit}
                      ELSE {<< >>}
    /\ step = 0
    /\ cur = seed
    /\ seen = IF prog = "run_aliquot_verify"
              THEN add_factor(empty_dict, seed, 0)
              ELSE empty_dict
    /\ peak = seed
    /\ peak_step = 0
    /\ result = no_result
    /\ traj = <<seed>>
    /\ arg = 0
    /\ verdict = FALSE
    /\ loop_end = not_ended
    /\ pointers = no_pointers
    /\ FactorizeIdle
    /\ MainIdle

VerifyResult(steps, ended, final, pk, pk_step) ==
    [seed |-> seed, steps |-> steps, ended |-> ended, final |-> final,
     peak |-> pk, peak_step |-> pk_step, peak_bits |-> bit_length(pk),
     ok |-> TRUE, reason |-> ""]

\* a variant of verify_body that looks for a return to the seed only
verify_body_seed_only(nxt) ==
    /\ peak' = IF nxt > peak THEN nxt ELSE peak
    /\ peak_step' = IF nxt > peak THEN step + 1 ELSE peak_step
    /\ traj' = Append(traj, nxt)
    /\ IF nxt <= 1
       THEN /\ result' = VerifyResult(step + 1, "terminated", nxt, peak', peak_step')
            /\ pc' = "returned"
            /\ UNCHANGED <<step, cur, seen>>
       ELSE IF nxt = seed
       THEN /\ result' = VerifyResult(step + 1,
                                      "cycle_" \o ToString(step + 1 - seen[nxt]),
                                      nxt, peak', peak_step')
            /\ pc' = "returned"
            /\ UNCHANGED <<step, cur, seen>>
       ELSE /\ seen' = add_factor(seen, nxt, step + 1)
            /\ cur' = nxt
            /\ step' = step + 1
            /\ UNCHANGED <<pc, result>>

\* a variant of verify_body that moves the peak on a tie (>= for >)
verify_body_latest(nxt) ==
    /\ peak' = IF nxt >= peak THEN nxt ELSE peak
    /\ peak_step' = IF nxt >= peak THEN step + 1 ELSE peak_step
    /\ traj' = Append(traj, nxt)
    /\ IF nxt <= 1
       THEN /\ result' = VerifyResult(step + 1, "terminated", nxt, peak', peak_step')
            /\ pc' = "returned"
            /\ UNCHANGED <<step, cur, seen>>
       ELSE IF nxt \in DOMAIN seen
       THEN /\ result' = VerifyResult(step + 1,
                                      "cycle_" \o ToString(step + 1 - seen[nxt]),
                                      nxt, peak', peak_step')
            /\ pc' = "returned"
            /\ UNCHANGED <<step, cur, seen>>
       ELSE /\ seen' = add_factor(seen, nxt, step + 1)
            /\ cur' = nxt
            /\ step' = step + 1
            /\ UNCHANGED <<pc, result>>

\* a variant of verify_body that writes the step under cur, over its entry
verify_body_overwriting(nxt) ==
    /\ peak' = IF nxt > peak THEN nxt ELSE peak
    /\ peak_step' = IF nxt > peak THEN step + 1 ELSE peak_step
    /\ traj' = Append(traj, nxt)
    /\ IF nxt <= 1
       THEN /\ result' = VerifyResult(step + 1, "terminated", nxt, peak', peak_step')
            /\ pc' = "returned"
            /\ UNCHANGED <<step, cur, seen>>
       ELSE IF nxt \in DOMAIN seen
       THEN /\ result' = VerifyResult(step + 1,
                                      "cycle_" \o ToString(step + 1 - seen[nxt]),
                                      nxt, peak', peak_step')
            /\ pc' = "returned"
            /\ UNCHANGED <<step, cur, seen>>
       ELSE /\ seen' = [q \in DOMAIN seen |-> IF q = cur THEN step + 1 ELSE seen[q]]
            /\ cur' = nxt
            /\ step' = step + 1
            /\ UNCHANGED <<pc, result>>

\* a variant of verify_body without the test "if nxt <= 1"
verify_body_cycle_only(nxt) ==
    /\ peak' = IF nxt > peak THEN nxt ELSE peak
    /\ peak_step' = IF nxt > peak THEN step + 1 ELSE peak_step
    /\ traj' = Append(traj, nxt)
    /\ IF nxt \in DOMAIN seen
       THEN /\ result' = VerifyResult(step + 1,
                                      "cycle_" \o ToString(step + 1 - seen[nxt]),
                                      nxt, peak', peak_step')
            /\ pc' = "returned"
            /\ UNCHANGED <<step, cur, seen>>
       ELSE /\ seen' = add_factor(seen, nxt, step + 1)
            /\ cur' = nxt
            /\ step' = step + 1
            /\ UNCHANGED <<pc, result>>

\* a variant of verify_body whose terminated result leaves out the last step
verify_body_uncounted(nxt) ==
    /\ peak' = IF nxt > peak THEN nxt ELSE peak
    /\ peak_step' = IF nxt > peak THEN step + 1 ELSE peak_step
    /\ traj' = Append(traj, nxt)
    /\ IF nxt <= 1
       THEN /\ result' = VerifyResult(step, "terminated", nxt, peak', peak_step')
            /\ pc' = "returned"
            /\ UNCHANGED <<step, cur, seen>>
       ELSE IF nxt \in DOMAIN seen
       THEN /\ result' = VerifyResult(step + 1,
                                      "cycle_" \o ToString(step + 1 - seen[nxt]),
                                      nxt, peak', peak_step')
            /\ pc' = "returned"
            /\ UNCHANGED <<step, cur, seen>>
       ELSE /\ seen' = add_factor(seen, nxt, step + 1)
            /\ cur' = nxt
            /\ step' = step + 1
            /\ UNCHANGED <<pc, result>>

\* a variant of verify_body that measures every cycle from the seed
verify_body_from_seed(nxt) ==
    /\ peak' = IF nxt > peak THEN nxt ELSE peak
    /\ peak_step' = IF nxt > peak THEN step + 1 ELSE peak_step
    /\ traj' = Append(traj, nxt)
    /\ IF nxt <= 1
       THEN /\ result' = VerifyResult(step + 1, "terminated", nxt, peak', peak_step')
            /\ pc' = "returned"
            /\ UNCHANGED <<step, cur, seen>>
       ELSE IF nxt \in DOMAIN seen
       THEN /\ result' = VerifyResult(step + 1, "cycle_" \o ToString(step + 1),
                                      nxt, peak', peak_step')
            /\ pc' = "returned"
            /\ UNCHANGED <<step, cur, seen>>
       ELSE /\ seen' = add_factor(seen, nxt, step + 1)
            /\ cur' = nxt
            /\ step' = step + 1
            /\ UNCHANGED <<pc, result>>

\* the body of run_aliquot_verify's loop after nxt = sum_proper_divisors(cur)
verify_body(nxt) ==
    /\ peak' = IF nxt > peak THEN nxt ELSE peak
    /\ peak_step' = IF nxt > peak THEN step + 1 ELSE peak_step
    /\ traj' = Append(traj, nxt)
    /\ IF nxt <= 1
       THEN /\ result' = VerifyResult(step + 1, "terminated", nxt, peak', peak_step')
            /\ pc' = "returned"
            /\ UNCHANGED <<step, cur, seen>>
       ELSE IF nxt \in DOMAIN seen
       THEN /\ result' = VerifyResult(step + 1,
                                      "cycle_" \o ToString(step + 1 - seen[nxt]),
                                      nxt, peak', peak_step')
            /\ pc' = "returned"
            /\ UNCHANGED <<step, cur, seen>>
       ELSE /\ seen' = add_factor(seen, nxt, step + 1)
            /\ cur' = nxt
            /\ step' = step + 1
            /\ UNCHANGED <<pc, result>>

\* s is what sum_proper_divisors(cur) returns or raises
verify_on(s) ==
    IF s.raised
    THEN /\ pc' = "raised"
         /\ UNCHANGED <<step, cur, seen, peak, peak_step, result, traj>>
    ELSE verify_body(s.value)

\* one iteration of run_aliquot_verify's for loop
verify_iteration ==
    /\ prog \in {"run_aliquot_verify", "main"}
    /\ pc = "loop"
    /\ step < max_steps
    /\ verify_on(sum_proper_divisors(cur))
    /\ UNCHANGED <<prog, arg, factorize_vars, verdict, loop_end, pointers, main_vars, seed,
                   max_steps, step_limit>>

\* a variant of verify_step_limit whose result carries the seed as final
verify_step_limit_seed ==
    /\ prog \in {"run_aliquot_verify", "main"}
    /\ pc = "loop"
    /\ step >= max_steps
    /\ result' = VerifyResult(max_steps, "step_limit", seed, peak, peak_step)
    /\ pc' = "returned"
    /\ UNCHANGED <<prog, arg, factorize_vars, verdict, loop_end, pointers, main_vars, seed,
                   max_steps, step_limit,
                   step, cur, seen, peak, peak_step, traj>>

\* the for loop of run_aliquot_verify is exhausted
verify_step_limit ==
    /\ prog \in {"run_aliquot_verify", "main"}
    /\ pc = "loop"
    /\ step >= max_steps
    /\ result' = VerifyResult(max_steps, "step_limit", cur, peak, peak_step)
    /\ pc' = "returned"
    /\ UNCHANGED <<prog, arg, factorize_vars, verdict, loop_end, pointers, main_vars, seed,
                   max_steps, step_limit,
                   step, cur, seen, peak, peak_step, traj>>

\* a variant of driver_assign that moves the peak on a tie (>= for >)
driver_assign_latest(nxt) ==
    /\ cur' = nxt
    /\ step' = step + 1
    /\ peak' = IF nxt >= peak THEN nxt ELSE peak
    /\ peak_step' = IF nxt >= peak THEN step + 1 ELSE peak_step
    /\ traj' = Append(traj, nxt)

\* run_aliquot, run_seed: n = nxt; if n > peak: peak = n; peak_step = i
driver_assign(nxt) ==
    /\ cur' = nxt
    /\ step' = step + 1
    /\ peak' = IF nxt > peak THEN nxt ELSE peak
    /\ peak_step' = IF nxt > peak THEN step + 1 ELSE peak_step
    /\ traj' = Append(traj, nxt)

\* a variant of aliquot_iteration_low whose aliquot_next(n) returns n for n <= 1
aliquot_iteration_stay ==
    /\ prog \in {"run_aliquot", "run_seed"}
    /\ pc = "loop"
    /\ step < lim
    /\ cur <= 1
    /\ driver_assign(cur)
    /\ UNCHANGED <<prog, pc, arg, factorize_vars, verdict, loop_end, pointers, main_vars,
                   seed, max_steps,
                   step_limit, seen, result>>

\* an iteration whose aliquot_next(n) returns 0 because n <= 1
aliquot_iteration_low ==
    /\ prog \in {"run_aliquot", "run_seed"}
    /\ pc = "loop"
    /\ step < lim
    /\ cur <= 1
    /\ driver_assign(0)
    /\ UNCHANGED <<prog, pc, arg, factorize_vars, verdict, loop_end, pointers, main_vars,
                   seed, max_steps,
                   step_limit, seen, result>>

\* an iteration whose aliquot_next(n) calls factorize(n)
aliquot_next_call ==
    /\ prog \in {"run_aliquot", "run_seed"}
    /\ pc = "loop"
    /\ step < lim
    /\ cur > 1
    /\ arg' = cur
    /\ pc' = "call"
    /\ UNCHANGED <<prog, factorize_vars, verdict, loop_end, pointers, driver_vars>>

\* factorize(n) has returned: sigma_from_factors(...) - n, the rest of the body
aliquot_next_return ==
    /\ prog \in {"run_aliquot", "run_seed"}
    /\ pc = "done"
    /\ driver_assign(sigma_from_factors(res) - cur)
    /\ pc' = "loop"
    /\ UNCHANGED <<prog, arg, factorize_vars, verdict, loop_end, pointers, main_vars, seed,
                   max_steps,
                   step_limit, seen, result>>

run_aliquot_return ==
    /\ prog = "run_aliquot"
    /\ pc = "loop"
    /\ step >= lim
    /\ result' = [seed |-> seed, steps |-> max_steps, final |-> cur,
                  peak |-> peak, peak_step |-> peak_step,
                  peak_bits |-> bit_length(peak)]
    /\ pc' = "returned"
    /\ UNCHANGED <<prog, arg, factorize_vars, verdict, loop_end, pointers, main_vars, seed,
                   max_steps, step_limit,
                   step, cur, seen, peak, peak_step, traj>>

run_seed_return ==
    /\ prog = "run_seed"
    /\ pc = "loop"
    /\ step >= lim
    /\ result' = [seed |-> seed, steps_req |-> max_steps, steps_done |-> lim,
                  final |-> cur, peak |-> peak, peak_step |-> peak_step,
                  peak_bits |-> bit_length(peak),
                  computed_status |-> classify_terminal(cur)]
    /\ pc' = "returned"
    /\ UNCHANGED <<prog, arg, factorize_vars, verdict, loop_end, pointers, main_vars, seed,
                   max_steps, step_limit,
                   step, cur, seen, peak, peak_step, traj>>

NextDriver ==
    \/ verify_iteration
    \/ verify_step_limit
    \/ aliquot_iteration_low
    \/ aliquot_next_call
    \/ factorize_enter
    \/ rec
    \/ pollard_rho_attempt
    \/ factorize_return
    \/ aliquot_next_return
    \/ run_aliquot_return
    \/ run_seed_return

SpecDriver == InitDriver /\ [][NextDriver]_vars

(***************************************************************************)
(* deep_analyze.py: main, the loop over the records of the track file.     *)
(* A record is [seed, max_value]: its seed and whether it has the field    *)
(* max_value.                                                              *)
(***************************************************************************)
BatchSeeds == {-1, 0, 1, 6, 12, 220}

\* a line of the track file: form "ok" is a JSON object whose fields int()
\* accepts (a missing seed reads as 0, max_value tells whether that field is
\* there), "not_json" a blank line or one json.loads rejects, "bad_seed",
\* "bad_steps", "bad_max_value" an object whose field int() rejects
Records ==
    {[seed |-> v, max_value |-> TRUE, form |-> "ok"] : v \in BatchSeeds}
        \cup {[seed |-> 6, max_value |-> FALSE, form |-> "ok"]}
        \cup {[seed |-> 6, max_value |-> TRUE, form |-> fm] :
                 fm \in {"not_json", "bad_seed", "bad_steps", "bad_max_value"}}

\* iter_track_jsonl yields the line and int(rec.get("seed", 0)) returns
seed_read(r) == r.form \notin {"not_json", "bad_seed"}

\* if not line: continue ... except json.JSONDecodeError: continue
main_skip_line ==
    /\ prog = "main"
    /\ pc = "next"
    /\ batch # << >>
    /\ Head(batch).form = "not_json"
    /\ batch' = Tail(batch)
    /\ UNCHANGED <<prog, pc, arg, factorize_vars, verdict, loop_end, pointers, seed,
                   max_steps, step_limit,
                   step, cur, seen, peak, peak_step, result, traj, processed,
                   max_seeds, report>>

\* the record r gets past "if seed <= 0" and the test of max_seeds
counted(r) ==
    /\ seed_read(r)
    /\ r.seed > 0
    /\ ~(max_seeds # 0 /\ processed + 1 > max_seeds)

\* int() raises ValueError on the seed, the steps or the max_value of the
\* record: nothing in main catches it, main ends with the exception
main_raise ==
    /\ prog = "main"
    /\ pc = "next"
    /\ batch # << >>
    /\ \/ /\ Head(batch).form = "bad_seed"
          /\ UNCHANGED processed
       \/ /\ counted(Head(batch))
          /\ Head(batch).form = "bad_steps"
          /\ processed' = processed + 1
       \/ /\ counted(Head(batch))
          /\ Head(batch).form = "bad_max_value"
          /\ Head(batch).max_value
          /\ processed' = processed + 1
    /\ pc' = "raised"
    /\ UNCHANGED <<prog, arg, factorize_vars, verdict, loop_end, pointers, seed, max_steps,
                   step_limit,
                   step, cur, seen, peak, peak_step, result, traj, batch,
                   max_seeds, report>>

RECURSIVE Batches(_)
Batches(k) ==
    IF k = 0 THEN {<< >>}
    ELSE Batches(k - 1) \cup {Append(b, r) : b \in {c \in Batches(k - 1) : Len(c) = k - 1}, r \in Records}

InitMain ==
    /\ prog = "main"
    /\ pc = "next"
    /\ batch \in Batches(MaxBatch)
    /\ max_steps \in 0 .. MaxSteps
    /\ max_seeds \in {0, 1}
    /\ processed = 0
    /\ report = << >>
    /\ seed = 0
    /\ step_limit = << >>
    /\ step = 0
    /\ cur = 0
    /\ seen = empty_dict
    /\ peak = 0
    /\ peak_step = 0
    /\ result = no_result
    /\ traj = << >>
    /\ arg = 0
    /\ verdict = FALSE
    /\ loop_end = not_ended
    /\ pointers = no_pointers
    /\ FactorizeIdle

\* seed = int(rec.get("seed", 0)); if seed <= 0: continue
main_skip_seed ==
    /\ prog = "main"
    /\ pc = "next"
    /\ batch # << >>
    /\ seed_read(Head(batch))
    /\ Head(batch).seed <= 0
    /\ batch' = Tail(batch)
    /\ UNCHANGED <<prog, pc, arg, factorize_vars, verdict, loop_end, pointers, seed,
                   max_steps, step_limit,
                   step, cur, seen, peak, peak_step, result, traj, processed,
                   max_seeds, report>>

\* processed += 1; if args.max_seeds and processed > args.max_seeds: break
main_break ==
    /\ prog = "main"
    /\ pc = "next"
    /\ batch # << >>
    /\ seed_read(Head(batch))
    /\ Head(batch).seed > 0
    /\ max_seeds # 0 /\ processed + 1 > max_seeds
    /\ processed' = processed + 1
    /\ pc' = "exit"
    /\ UNCHANGED <<prog, arg, factorize_vars, verdict, loop_end, pointers, seed, max_steps,
                   step_limit,
                   step, cur, seen, peak, peak_step, result, traj, batch,
                   max_seeds, report>>

\* if max_value_field is None: continue
main_skip_max_value ==
    /\ prog = "main"
    /\ pc = "next"
    /\ batch # << >>
    /\ counted(Head(batch))
    /\ Head(batch).form # "bad_steps"
    /\ ~Head(batch).max_value
    /\ processed' = processed + 1
    /\ batch' = Tail(batch)
    /\ UNCHANGED <<prog, pc, arg, factorize_vars, verdict, loop_end, pointers, seed,
                   max_steps, step_limit,
                   step, cur, seen, peak, peak_step, result, traj, max_seeds, report>>

\* a variant of main_call in which the visited map and the peak outlive the call
main_call_shared ==
    /\ prog = "main"
    /\ pc = "next"
    /\ batch # << >>
    /\ counted(Head(batch))
    /\ Head(batch).form = "ok"
    /\ Head(batch).max_value
    /\ processed' = processed + 1
    /\ batch' = Tail(batch)
    /\ seed' = Head(batch).seed
    /\ seen' = IF seed' \in DOMAIN seen THEN seen ELSE add_factor(seen, seed', 0)
    /\ cur' = seed'
    /\ peak' = IF peak > seed' THEN peak ELSE seed'
    /\ peak_step' = IF peak > seed' THEN peak_step ELSE 0
    /\ step' = 0
    /\ traj' = <<seed'>>
    /\ pc' = "loop"
    /\ UNCHANGED <<prog, arg, factorize_vars, verdict, loop_end, pointers, max_steps,
                   step_limit, result,
                   max_seeds, report>>

\* vr = run_aliquot_verify(seed, args.max_steps), up to its loop
main_call ==
    /\ prog = "main"
    /\ pc = "next"
    /\ batch # << >>
    /\ counted(Head(batch))
    /\ Head(batch).form = "ok"
    /\ Head(batch).max_value
    /\ processed' = processed + 1
    /\ batch' = Tail(batch)
    /\ seed' = Head(batch).seed
    /\ seen' = add_factor(empty_dict, seed', 0)
    /\ cur' = seed'
    /\ peak' = seed'
    /\ peak_step' = 0
    /\ step' = 0
    /\ traj' = <<seed'>>
    /\ pc' = "loop"
    /\ UNCHANGED <<prog, arg, factorize_vars, verdict, loop_end, pointers, max_steps,
                   step_limit, result,
                   max_seeds, report>>

\* run_aliquot_verify has returned vr: the row of the report is written
main_write ==
    /\ prog = "main"
    /\ pc = "returned"
    /\ report' = Append(report, result)
    /\ pc' = "next"
    /\ UNCHANGED <<prog, arg, factorize_vars, verdict, loop_end, pointers, seed, max_steps,
                   step_limit,
                   step, cur, seen, peak, peak_step, result, traj, batch, processed,
                   max_seeds>>

\* the track file is read to its end: return 0
main_exit ==
    /\ prog = "main"
    /\ pc = "next"
    /\ batch = << >>
    /\ pc' = "exit"
    /\ UNCHANGED <<prog, arg, factorize_vars, verdict, loop_end, pointers, driver_vars>>

NextMain ==
    \/ main_skip_line
    \/ main_raise
    \/ main_skip_seed
    \/ main_break
    \/ main_skip_max_value
    \/ main_call
    \/ verify_iteration
    \/ verify_step_limit
    \/ main_write
    \/ main_exit

SpecMain == InitMain /\ [][NextMain]_vars

(***************************************************************************)
(* Every program of the model.                                             *)
(***************************************************************************)
Init == InitPrime \/ InitFactorize \/ InitDriver \/ InitMain \/ InitFloyd

Next == NextPrime \/ NextFactorize \/ NextDriver \/ NextMain \/ NextFloyd

Spec == Init /\ [][Next]_vars

(***************************************************************************)
(* Ground truth by direct enumeration.                                     *)
(***************************************************************************)
\* the largest r in lo..hi with r * r <= v, given lo * lo <= v
RECURSIVE root_between(_, _, _)
root_between(v, lo, hi) ==
    IF lo >= hi THEN lo
    ELSE IF ((lo + hi + 1) \div 2) * ((lo + hi + 1) \div 2) <= v
         THEN root_between(v, (lo + hi + 1) \div 2, hi)
         ELSE root_between(v, lo, ((lo + hi + 1) \div 2) - 1)

isqrt(v) == root_between(v, 0, 46340)

\* no d with 1 < d, d * d <= v divides v
TrialPrime(v) == v >= 2 /\ \A d \in 2 .. isqrt(v) : v % d # 0

\* the smallest divisor of v above 1, for v >= 2
LeastDivisor(v) ==
    IF TrialPrime(v) THEN v ELSE CHOOSE d \in 2 .. isqrt(v) : v % d = 0

\* the factorization of v found by dividing out the least divisor
RECURSIVE TrialFactors(_)
TrialDivide(v, p) == add_factor(TrialFactors(v \div p), p, 1)

TrialFactors(v) == IF v < 2 THEN empty_dict ELSE TrialDivide(v, LeastDivisor(v))

RECURSIVE SumOf(_)
SumWithout(S, d) == d + SumOf(S \ {d})

SumOf(S) == IF S = {} THEN 0 ELSE SumWithout(S, CHOOSE d \in S : TRUE)

\* the sum of the positive divisors of v, for v >= 1
DivisorSum(v) == SumOf({d \in 1 .. v : v % d = 0})

RECURSIVE ProductOf(_, _)
ProductWithout(fc, keys, p) == (p ^ fc[p]) * ProductOf(fc, keys \ {p})

ProductOf(fc, keys) ==
    IF keys = {} THEN 1 ELSE ProductWithout(fc, keys, CHOOSE q \in keys : TRUE)

\* the product of p^e over the entries of fc
Product(fc) == ProductOf(fc, DOMAIN fc)

(***************************************************************************)
(* The properties.                                                         *)
(***************************************************************************)
\* C1: what factorize(n) and factorize_trial_then_pollard_rho(n) return has
\* only prime keys, each with an exponent of at least 1, and the product of
\* p^e over its entries is n; for n < 2 the mapping returned is empty.
C1_FactorizationOfN ==
    (prog \in {"factorize", "factorize_trial_then_pollard_rho"} /\ pc = "done")
        => /\ \A p \in DOMAIN res : TrialPrime(p) /\ res[p] >= 1
           /\ arg >= 2 => Product(res) = arg
           /\ arg < 2 => res = empty_dict

\* a composite argument whose factorization went through pollard_rho has been
\* returned by factorize, and one above limit^2 by factorize_trial_then_pollard_rho
C1_Witness ==
    /\ pc = "done"
    /\ \/ prog = "factorize" /\ rho_n > 1 /\ rho_d \notin {1, 2, 3} /\ Cardinality(DOMAIN res) >= 2
       \/ prog = "factorize_trial_then_pollard_rho" /\ arg = 400640231

\* C2: the mapping factorize(n) returns is the same for every sequence of
\* draws (c, x) of pollard_rho and every number of restarts: it is the one
\* mapping that trial division of n gives.
C2_SameForEveryDraw ==
    (prog = "factorize" /\ pc = "done") => res = TrialFactors(arg)

\* factorize has returned after a pollard_rho call that was restarted
C2_Witness ==
    prog = "factorize" /\ pc = "done" /\ restarts > 0 /\ rho_n > 1

\* C3: each of the three copies of is_probable_prime returns true exactly
\* when its argument is prime by trial division; below 2 and on the
\* Carmichael number 561 it returns false.
C3_AgreesWithTrialDivision ==
    (prog \in {"is_probable_prime", "is_probable_prime_deep", "is_probable_prime_all"}
     /\ pc = "done")
        => /\ verdict = TrialPrime(arg)
           /\ arg < 2 => ~verdict
           /\ arg = 561 => ~verdict

\* the copy of deep_analyze.py has rejected the Carmichael number 561
C3_Witness ==
    prog = "is_probable_prime_deep" /\ pc = "done" /\ arg = 561 /\ ~verdict

\* properDivisorSum by enumeration: 0 for v <= 1, else the divisors below v
ProperDivisorSum(v) == IF v <= 1 THEN 0 ELSE DivisorSum(v) - v

Drivers == {"run_aliquot_verify", "run_aliquot", "run_seed"}

Last(t) == t[Len(t)]

\* the largest value of a non-empty sequence
Maximum(t) == CHOOSE m \in {t[k] : k \in 1 .. Len(t)} : \A k \in 1 .. Len(t) : t[k] <= m

\* C4: the trajectory of a run starts with the seed at step 0, and each
\* later value is the proper-divisor sum of the value before it; the run is
\* at the last value of the trajectory, which has one value per executed step.
C4_Trajectory ==
    prog \in Drivers =>
        /\ traj[1] = seed
        /\ \A k \in 1 .. Len(traj) - 1 : traj[k + 1] = ProperDivisorSum(traj[k])
        /\ pc # "returned" => Len(traj) = step + 1 /\ cur = Last(traj)
        /\ pc = "returned" => result.final = Last(traj)

\* run_aliquot has returned after at least three steps that stayed above 1
C4_Witness ==
    /\ prog = "run_aliquot"
    /\ pc = "returned"
    /\ Len(traj) >= 4
    /\ traj[4] > 1

\* C5: in run_aliquot_verify the first computed value that is <= 1 ends the
\* run: it is the last value computed, the result says "terminated", its
\* final is that value and its steps count the step that computed it.
C5_Terminated ==
    prog = "run_aliquot_verify" =>
        \A k \in 2 .. Len(traj) :
            traj[k] <= 1 =>
                /\ k = Len(traj)
                /\ pc = "returned"
                /\ result.ended = "terminated"
                /\ result.final = traj[k]
                /\ result.steps = k - 1

\* a run of run_aliquot_verify has terminated at its third step or later
C5_Witness ==
    /\ prog = "run_aliquot_verify"
    /\ pc = "returned"
    /\ result.ended = "terminated"
    /\ result.steps >= 3
    /\ Last(traj) <= 1

\* C6: in run_aliquot_verify a computed value above 1 that was computed
\* before ends the run with "cycle_<N>", N the distance between the two
\* steps, and final that value; seed 220 ends with cycle_2 and seed 6 with
\* cycle_1 at step 1.
C6_Cycle ==
    prog = "run_aliquot_verify" =>
        /\ \A j \in 1 .. Len(traj) - 1 :
               (Last(traj) > 1 /\ traj[j] = Last(traj)) =>
                   /\ pc = "returned"
                   /\ result.ended = "cycle_" \o ToString(Len(traj) - j)
                   /\ result.final = Last(traj)
                   /\ result.steps = Len(traj) - 1
        /\ (pc = "returned" /\ seed = 220 /\ max_steps >= 2) => result.ended = "cycle_2"
        /\ (pc = "returned" /\ seed = 6 /\ max_steps >= 1)
               => result.ended = "cycle_1" /\ result.steps = 1

\* a run has entered a cycle that does not go through its seed: 562, 284, 220, 284
C6_Witness ==
    /\ prog = "run_aliquot_verify"
    /\ pc = "returned"
    /\ seed = 562
    /\ result.ended = "cycle_2"
    /\ result.steps = 3

\* C7: a run of run_aliquot_verify that computed max_steps values, none of
\* them <= 1 or computed before, ends with "step_limit", steps = max_steps
\* and final the last value computed; with max_steps = 0 it ends with
\* step_limit, final = seed, peak = seed and peak_step = 0.
C7_StepLimit ==
    (prog = "run_aliquot_verify" /\ pc = "returned") =>
        /\ ( /\ \A k \in 2 .. Len(traj) : traj[k] > 1
             /\ \A j, k \in 1 .. Len(traj) : traj[j] = traj[k] => j = k )
               => /\ result.ended = "step_limit"
                  /\ result.steps = max_steps
                  /\ Len(traj) = max_steps + 1
                  /\ result.final = Last(traj)
        /\ max_steps = 0
               => /\ result.ended = "step_limit"
                  /\ result.steps = 0
                  /\ result.final = seed
                  /\ result.peak = seed
                  /\ result.peak_step = 0

\* a run has used up a budget of three steps or more away from its seed
C7_Witness ==
    /\ prog = "run_aliquot_verify"
    /\ pc = "returned"
    /\ result.ended = "step_limit"
    /\ result.steps >= 3
    /\ result.final # seed

\* C8: a run never executes more steps than its budget, and the step count
\* of its result is at most max_steps (run_aliquot_verify), steps
\* (run_aliquot) and min(steps, step_limit) (run_seed).
C8_WithinBudget ==
    prog \in Drivers =>
        /\ Len(traj) - 1 <= max_steps
        /\ step_limit # << >> => Len(traj) - 1 <= step_limit[1]
        /\ (pc = "returned" /\ prog \in {"run_aliquot_verify", "run_aliquot"})
               => result.steps <= max_steps
        /\ (pc = "returned" /\ prog = "run_seed")
               => /\ result.steps_done <= max_steps
                  /\ step_limit # << >> => result.steps_done <= step_limit[1]
                  /\ result.steps_done = Len(traj) - 1

\* run_seed has returned after a step_limit below steps cut the run short
C8_Witness ==
    /\ prog = "run_seed"
    /\ pc = "returned"
    /\ step_limit # << >>
    /\ step_limit[1] < max_steps
    /\ result.steps_done = step_limit[1]
    /\ result.steps_done >= 2

\* C9: peak is the largest value of the trajectory computed so far, the seed
\* included, and peak_step is the first step at which that value occurs; the
\* result carries both.
C9_Peak ==
    prog \in Drivers =>
        /\ peak = Maximum(traj)
        /\ traj[peak_step + 1] = peak
        /\ \A j \in 1 .. peak_step : traj[j] < peak
        /\ pc = "returned" => result.peak = peak /\ result.peak_step = peak_step

\* the largest value occurred a second time after a peak that is not the seed
C9_Witness ==
    /\ prog \in Drivers
    /\ pc = "returned"
    /\ peak_step >= 1
    /\ \E j \in peak_step + 2 .. Len(traj) : traj[j] = peak

\* C10: for n >= 1 the sigma of the factorization of n is the sum of the
\* positive divisors of n found by enumeration, 56 for n = 28; the sigma of
\* the empty factorization is 1.
C10_SigmaIsDivisorSum ==
    (prog \in {"factorize", "factorize_trial_then_pollard_rho"} /\ pc = "summed") =>
        /\ arg >= 1 => sig = DivisorSum(arg)
        /\ arg = 28 => sig = 56
        /\ res = empty_dict => sig = 1

\* sigma_from_factors has returned 56 for the factorization of 28
C10_Witness ==
    prog = "factorize" /\ pc = "summed" /\ arg = 28 /\ sig = 56

\* the sum of the divisors of v below v, by enumeration
StrictDivisorSum(v) == SumOf({d \in 1 .. v - 1 : v % d = 0})

\* the positions of a run inside factorize
InFactorize == {"call", "rec", "rho", "done"}

(***************************************************************************)
(* run_aliquot_verify(seed, max_steps) as a function of its two arguments: *)
(* the record of a call that nothing preceded.  st is the state of the     *)
(* loop, [step, cur, seen, peak, peak_step], step the iterations done.     *)
(***************************************************************************)
verify_record(sd, steps, ended, final, pk, pk_step) ==
    [seed |-> sd, steps |-> steps, ended |-> ended, final |-> final,
     peak |-> pk, peak_step |-> pk_step, peak_bits |-> bit_length(pk),
     ok |-> TRUE, reason |-> ""]

verify_peak(st, nxt) == IF nxt > st.peak THEN nxt ELSE st.peak
verify_peak_step(st, nxt) == IF nxt > st.peak THEN st.step + 1 ELSE st.peak_step

RECURSIVE verify_loop(_, _, _)
verify_step(sd, budget, st, nxt) ==
    IF nxt <= 1
    THEN verify_record(sd, st.step + 1, "terminated", nxt,
                       verify_peak(st, nxt), verify_peak_step(st, nxt))
    ELSE IF nxt \in DOMAIN st.seen
    THEN verify_record(sd, st.step + 1, "cycle_" \o ToString(st.step + 1 - st.seen[nxt]),
                       nxt, verify_peak(st, nxt), verify_peak_step(st, nxt))
    ELSE verify_loop(sd, budget,
                     [step |-> st.step + 1, cur |-> nxt,
                      seen |-> add_factor(st.seen, nxt, st.step + 1),
                      peak |-> verify_peak(st, nxt),
                      peak_step |-> verify_peak_step(st, nxt)])
verify_loop(sd, budget, st) ==
    IF st.step >= budget
    THEN verify_record(sd, budget, "step_limit", st.cur, st.peak, st.peak_step)
    ELSE verify_step(sd, budget, st, sum_proper_divisors(st.cur).value)

run_aliquot_verify(sd, budget) ==
    verify_loop(sd, budget,
                [step |-> 0, cur |-> sd, seen |-> add_factor(empty_dict, sd, 0),
                 peak |-> sd, peak_step |-> 0])


\* C11: sum_proper_divisors and aliquot_next return 0 for n <= 1 without
\* calling the factorizer, and for n >= 2 they return the sigma of the
\* factorization minus n, which is the sum of the divisors of n below n.
C11_ProperDivisorSum ==
    /\ prog = "sum_proper_divisors" =>
           /\ pc \in {"done", "raised"} => arg >= 2
           /\ pc = "summed" =>
                  /\ arg <= 1 => sig = 0 /\ res = empty_dict
                  /\ arg >= 2 => /\ sig = sigma_from_factorization(res) - arg
                                 /\ sig = StrictDivisorSum(arg)
    /\ prog \in {"run_aliquot", "run_seed"} =>
           /\ pc \in InFactorize => arg = cur /\ cur >= 2
           /\ \A k \in 1 .. Len(traj) - 1 :
                  /\ traj[k] <= 1 => traj[k + 1] = 0
                  /\ traj[k] >= 2 => traj[k + 1] = StrictDivisorSum(traj[k])

\* sum_proper_divisors(1) has returned 0
C11_Witness ==
    prog = "sum_proper_divisors" /\ pc = "summed" /\ arg = 1 /\ sig = 0

\* a run of run_aliquot_verify on a prime seed with a budget of 2 or more
PrimeSeedRun == prog = "run_aliquot_verify" /\ TrialPrime(seed) /\ max_steps >= 2

\* C12: a run on a prime seed with a step budget of at least 2 reaches a
\* value <= 1 within 2 steps and returns with the ending "terminated": until
\* it has returned it is at its seed with its first iteration ready to run,
\* and after that iteration it has returned.
C12_PrimeSeedTerminates ==
    PrimeSeedRun =>
        /\ Len(traj) - 1 <= 2
        /\ pc = "loop" => step = 0 /\ step < max_steps /\ traj = <<seed>>
        /\ pc # "loop" =>
               /\ pc = "returned"
               /\ result.ended = "terminated"
               /\ result.steps <= 2
               /\ result.final <= 1
               /\ Last(traj) <= 1

\* the run on a prime seed above the small primes has returned
C12_Witness ==
    /\ PrimeSeedRun
    /\ seed > 37
    /\ pc = "returned"
    /\ result.ended = "terminated"

\* C13: for a seed below 1 the result is "terminated" with final = 0 and
\* steps = 0, whatever the step budget, and nothing is raised.  (Refuted:
\* run_aliquot_verify computes one step for such a seed, or none and then
\* reports "step_limit" with final = seed.)
C13_SeedBelowOne ==
    (prog = "run_aliquot_verify" /\ seed < 1) =>
        /\ pc # "raised"
        /\ pc = "returned" =>
               /\ result.ended = "terminated"
               /\ result.final = 0
               /\ result.steps = 0

\* C14: what pollard_rho(m) returns for a composite m is a divisor g of m
\* with 1 < g < m; an attempt whose gcd is m is not returned: the call stays
\* in its loop, counts a restart and draws again.
C14_NontrivialDivisor ==
    (prog \in {"factorize", "run_aliquot", "run_seed"} /\ rho_n > 1) =>
        /\ ~TrialPrime(rho_n)
        /\ pc # "rho" => 1 < rho_d /\ rho_d < rho_n /\ rho_n % rho_d = 0
        /\ pc = "rho" =>
               /\ rho_d \in {1, rho_n}
               /\ rho_d = rho_n <=> restarts > 0
               /\ Head(stack) = rho_n
               /\ draws_c(rho_n) \subseteq 1 .. rho_n - 1
               /\ draws_x(rho_n) \subseteq 0 .. rho_n - 1

\* pollard_rho has returned a divisor after an attempt that ended with d = m
C14_Witness ==
    /\ prog = "factorize"
    /\ pc = "rec"
    /\ restarts > 0
    /\ 1 < rho_d
    /\ rho_d < rho_n
    /\ stack # << >>
    /\ Head(stack) = rho_d

\* some draw of c and x makes the attempt of the running pollard_rho call
\* end with a gcd strictly between 1 and its argument
RhoCanReturn ==
    \E c \in draws_c(rho_n), x \in draws_x(rho_n) :
        floyd(rho_n, c, x) \notin {1, rho_n}

\* C15: whenever the loop of pollard_rho is running on m, whatever the number
\* of attempts that failed, some choice of (c, x) ends the next attempt with
\* 1 < gcd < m: no state of the loop rules out its return.
C15_RhoCanAlwaysReturn ==
    (prog \in {"factorize", "run_aliquot", "run_seed"} /\ pc = "rho") =>
        /\ ~TrialPrime(rho_n)
        /\ RhoCanReturn

\* the loop of pollard_rho is running after an attempt that ended with d = m
C15_Witness ==
    prog = "factorize" /\ pc = "rho" /\ restarts >= 1 /\ rho_d = rho_n /\ RhoCanReturn

(***************************************************************************)
(* C16.  Factorization terminates for every n: each recursive call of rec  *)
(* or split on a composite m is made on d and m // d, both strictly        *)
(* between 1 and m, so the pending calls shrink with every step and their  *)
(* depth is bounded; deep_analyze.py's split never recurses on d = n_      *)
(* (which would raise RecursionError) after rho and the offsets 3, 5, 7,   *)
(* 11, 13 have all returned n_.                                            *)
(***************************************************************************)
RECURSIVE PendingProduct(_)
PendingProduct(st) == IF st = << >> THEN 1 ELSE Head(st) * PendingProduct(Tail(st))

RECURSIVE PendingMeasure(_)
PendingMeasure(st) ==
    IF st = << >> THEN 0 ELSE (2 * Head(st) - 1) + PendingMeasure(Tail(st))

InRec == prog \in Drivers \cup {"factorize"} /\ pc \in {"rec", "rho"}

\* the pending calls of rec are on numbers above 1 whose product, with the
\* primes found, is the number the trial divisions left; so there are at most
\* bit_length(arg) of them
C16_Pending ==
    InRec =>
        /\ \A i \in 1 .. Len(stack) : stack[i] > 1
        /\ PendingProduct(stack) * Product(res) = arg
        /\ Len(stack) <= bit_length(arg)
        /\ pc = "rho" => stack # << >> /\ Head(stack) = rho_n

\* a step that makes new calls replaces the call on m by calls on d and m // d
C16_Recursion ==
    (InRec /\ Len(stack') > Len(stack)) =>
        /\ Len(stack') = Len(stack) + 1
        /\ Tail(Tail(stack')) = Tail(stack)
        /\ 1 < stack'[1] /\ stack'[1] < Head(stack)
        /\ 1 < stack'[2] /\ stack'[2] < Head(stack)
        /\ stack'[1] * stack'[2] = Head(stack)

\* every step of rec shrinks the pending work, but for the call of pollard_rho
\* and its restarts
C16_Decrease ==
    (InRec /\ pc' \in {"rec", "rho"}) =>
        \/ PendingMeasure(stack') < PendingMeasure(stack)
        \/ pc = "rec" /\ pc' = "rho" /\ stack' = stack
        \/ pc = "rho" /\ pc' = "rho" /\ stack' = stack /\ restarts' = restarts + 1

\* products of two primes above limit: split is called on arg itself
SplitInputs == {400440121, 400640231, 407363927, 415648481}

C16_Split ==
    prog \in {"factorize_trial_then_pollard_rho", "sum_proper_divisors"} =>
        /\ pc # "raised"
        /\ (arg \in SplitInputs /\ pc = "done") =>
              /\ 1 < split_divisor(arg) /\ split_divisor(arg) < arg
              /\ arg % split_divisor(arg) = 0

PrimeCalls == {"is_probable_prime", "is_probable_prime_deep", "is_probable_prime_all"}

C17_ZeroBaseSkipped ==
    (prog \in PrimeCalls /\ pc = "done" /\ loop_end.by \in {"zero", "check", "end"}) =>
        /\ loop_end.by # "zero"
        /\ loop_end.by = "check" => bases[loop_end.base] % arg # 0
        /\ loop_end.by = "end" => verdict

\* the part of C17 that holds for the two copies that continue on a zero base
C17_ZeroBaseSkippedElsewhere ==
    prog \in {"is_probable_prime", "is_probable_prime_all"} => C17_ZeroBaseSkipped

\* the verdicts of the three copies agree all the same
C17_SameVerdict ==
    (prog \in PrimeCalls /\ pc = "done") =>
        /\ verdict = is_probable_prime(arg)
        /\ verdict = is_probable_prime_deep(arg)

(***************************************************************************)
(* C18.  In sigma, for every entry (p, e) of the factorization, p >= 2 and *)
(* e >= 1, p^(e+1) - 1 is divisible by p - 1 with remainder 0, so the      *)
(* floor division loses nothing, and each factor of the product is         *)
(* 1 + p + ... + p^e; sigma is the product of these series.                *)
(***************************************************************************)
RECURSIVE PowerSum(_, _)
PowerSum(p, e) == IF e = 0 THEN 1 ELSE p ^ e + PowerSum(p, e - 1)

RECURSIVE SeriesProductOf(_, _)
SeriesProductWithout(fc, keys, p) == PowerSum(p, fc[p]) * SeriesProductOf(fc, keys \ {p})
SeriesProductOf(fc, keys) ==
    IF keys = {} THEN 1 ELSE SeriesProductWithout(fc, keys, CHOOSE p \in keys : TRUE)

SigmaCalled ==
    /\ pc = "summed"
    /\ \/ prog \in {"factorize", "factorize_trial_then_pollard_rho"}
       \/ prog = "sum_proper_divisors" /\ arg >= 2

C18_ExactDivision ==
    SigmaCalled =>
        /\ \A p \in DOMAIN res :
              /\ p >= 2
              /\ res[p] >= 1
              /\ (p ^ (res[p] + 1) - 1) % (p - 1) = 0
              /\ geometric(p, res[p]) * (p - 1) = p ^ (res[p] + 1) - 1
              /\ geometric(p, res[p]) = PowerSum(p, res[p])
        /\ prog = "factorize" => sig = SeriesProductOf(res, DOMAIN res)
        /\ prog = "factorize_trial_then_pollard_rho" => sig = SeriesProductOf(res, DOMAIN res)
        /\ prog = "sum_proper_divisors" => sig + arg = SeriesProductOf(res, DOMAIN res)

\* sigma(41^3) = 1 + 41 + 1681 + 68921
C18_Witness ==
    /\ prog = "factorize_trial_then_pollard_rho"
    /\ pc = "summed"
    /\ arg = 68921
    /\ res = (41 :> 3)
    /\ sig = 70644

(***************************************************************************)
(* C19.  For every seed that is a natural number and every step budget, no *)
(* value of the trajectory and no intermediate of a step (sigma,           *)
(* sigma - n, the peak) is negative, and a state n >= 2 is followed by a   *)
(* value >= 1.                                                             *)
(***************************************************************************)
NaturalRun == prog \in Drivers \cup {"main"} /\ seed >= 0 /\ traj # << >>

C19_Trajectory ==
    NaturalRun =>
        /\ \A k \in 1 .. Len(traj) : traj[k] >= 0
        /\ \A k \in 1 .. Len(traj) - 1 : traj[k] >= 2 => traj[k + 1] >= 1
        /\ cur >= 0
        /\ peak >= 0
        /\ pc = "returned" => result.final >= 0 /\ result.peak >= 0

\* aliquot_next: sigma_from_factors(factorize(n)) and what it returns, n >= 2
C19_AliquotNext ==
    (NaturalRun /\ prog \in {"run_aliquot", "run_seed"} /\ pc = "done") =>
        /\ cur >= 2
        /\ sigma_from_factors(res) >= 0
        /\ sigma_from_factors(res) - cur >= 1

\* sum_proper_divisors: sig and sig - n
C19_SumProperDivisors ==
    prog = "sum_proper_divisors" =>
        /\ pc = "done" => /\ arg >= 2
                          /\ sigma_from_factorization(res) >= 0
                          /\ sigma_from_factorization(res) - arg >= 1
        /\ pc = "summed" => sig >= 0 /\ (arg >= 2 => sig >= 1)

C19_NothingNegative == C19_Trajectory /\ C19_AliquotNext /\ C19_SumProperDivisors

\* 2209 = 47^2 -> 48 -> 76 -> 64 -> 63 -> 41 under run_aliquot_verify
C19_Witness ==
    /\ prog = "run_aliquot_verify"
    /\ seed = 2209
    /\ traj = <<2209, 48, 76, 64, 63, 41>>
    /\ peak = 2209

(***************************************************************************)
(* C20.  Runs for different seeds are independent: main creates the        *)
(* visited map, the peak and the state afresh for each call of             *)
(* run_aliquot_verify, so the row written for a seed is the record of      *)
(* run_aliquot_verify(seed, max_steps) alone, whatever runs came before it *)
(* in the batch.                                                           *)
(***************************************************************************)
C20_Fresh ==
    (prog = "main" /\ pc = "loop" /\ step = 0) =>
        /\ seen = add_factor(empty_dict, seed, 0)
        /\ cur = seed
        /\ peak = seed
        /\ peak_step = 0

C20_Rows ==
    prog = "main" =>
        /\ \A i \in 1 .. Len(report) :
              report[i] = run_aliquot_verify(report[i].seed, max_steps)
        /\ pc = "returned" => result = run_aliquot_verify(seed, max_steps)

C20_RunsIndependent == C20_Fresh /\ C20_Rows

\* the run of 12 written after the run of 220, whose peak was 284
C20_Witness ==
    /\ prog = "main"
    /\ Len(report) = 2
    /\ report[1].seed = 220 /\ report[1].ended = "cycle_2" /\ report[1].peak = 284
    /\ report[2].seed = 12 /\ report[2].peak = 16

(***************************************************************************)
(* C21.  A malformed record of the batch (a line that is not JSON, a       *)
(* record whose seed, steps or max_value is missing or unusable) is        *)
(* skipped and never aborts the batch: main does not end with an exception *)
(* and stops reading only at the end of the input or at the max_seeds      *)
(* break, so every well-formed record after it is still processed.         *)
(***************************************************************************)
C21_MalformedSkipped ==
    prog = "main" =>
        /\ pc # "raised"
        /\ (pc = "exit" /\ batch # << >>) => (max_seeds # 0 /\ processed > max_seeds)

\* the two kinds of malformed record that main does skip: a line that is not
\* JSON and a record without max_value, each followed by a run that is written
C21_SkippedKinds ==
    (prog = "main" /\ batch # << >> /\ pc = "raised") =>
        Head(batch).form \in {"bad_seed", "bad_steps", "bad_max_value"}

(***************************************************************************)
(* C22.  At the start of every iteration of run_aliquot_verify the visited *)
(* map is exactly {value(k) -> k : 0 <= k <= steps done}: it starts as     *)
(* {seed -> 0}, gains exactly one entry per step that does not end the     *)
(* run, its keys are pairwise distinct values of the trajectory, and no    *)
(* entry is ever overwritten or removed.                                   *)
(***************************************************************************)
InVerifyLoop == prog \in {"run_aliquot_verify", "main"} /\ pc = "loop"

C22_VisitedIsTrajectory ==
    InVerifyLoop =>
        /\ Len(traj) = step + 1
        /\ traj[1] = seed
        /\ traj[step + 1] = cur
        /\ DOMAIN seen = {traj[k + 1] : k \in 0 .. step}
        /\ \A k \in 0 .. step : seen[traj[k + 1]] = k
        /\ \A j, k \in 0 .. step : j # k => traj[j + 1] # traj[k + 1]
        /\ Cardinality(DOMAIN seen) = step + 1
        /\ step = 0 => seen = (seed :> 0)

C22_VisitedGrows ==
    (InVerifyLoop /\ prog' = prog) =>
        /\ \A v \in DOMAIN seen : v \in DOMAIN seen' /\ seen'[v] = seen[v]
        /\ pc' = "loop" => /\ step' = step + 1
                           /\ Cardinality(DOMAIN seen') = Cardinality(DOMAIN seen) + 1
                           /\ DOMAIN seen' = DOMAIN seen \cup {cur'}
        /\ pc' # "loop" => seen' = seen

C22_VisitedMap == [](C22_VisitedIsTrajectory) /\ [][C22_VisitedGrows]_vars

\* 2209 -> 48 -> 76 -> 64 -> 63 -> 41: six entries after five steps
C22_Witness ==
    /\ prog = "run_aliquot_verify"
    /\ pc = "loop"
    /\ step = 5
    /\ seen = (2209 :> 0) @@ (48 :> 1) @@ (76 :> 2) @@ (64 :> 3) @@ (63 :> 4) @@ (41 :> 5)

(***************************************************************************)
(* C23.  For every seed >= 1 and every budget the step that ends           *)
(* run_aliquot_verify with "terminated" or with a cycle does not change    *)
(* the peak record: the peak and peak_step returned are those of the       *)
(* values before the last one, which is what a Step that updates the peak  *)
(* in its continuing branch only would return.                             *)
(***************************************************************************)
\* the peak record over the values t[1 .. m]: the greatest value and the step
\* (index - 1) of its first occurrence
PeakOf(t, m) == CHOOSE v \in {t[k] : k \in 1 .. m} : \A k \in 1 .. m : t[k] <= v
PeakStepOf(t, m) == (CHOOSE k \in 1 .. m : t[k] = PeakOf(t, m)
                                           /\ \A j \in 1 .. k - 1 : t[j] # PeakOf(t, m)) - 1

EndedByStep ==
    /\ prog = "run_aliquot_verify"
    /\ seed >= 1
    /\ pc = "returned"
    /\ result.ended # "step_limit"

C23_PeakOfContinuingSteps ==
    EndedByStep =>
        /\ Len(traj) >= 2
        /\ result.peak = PeakOf(traj, Len(traj) - 1)
        /\ result.peak_step = PeakStepOf(traj, Len(traj) - 1)
        /\ result.peak = PeakOf(traj, Len(traj))
        /\ result.peak_step = PeakStepOf(traj, Len(traj))

C23_EndingStepKeepsPeak ==
    (prog = "run_aliquot_verify" /\ seed >= 1 /\ pc = "loop" /\ pc' = "returned"
        /\ result'.ended # "step_limit") =>
        /\ peak' = peak
        /\ peak_step' = peak_step
        /\ result'.peak = peak
        /\ result'.peak_step = peak_step

C23_PeakUnchangedAtEnd ==
    [](C23_PeakOfContinuingSteps) /\ [][C23_EndingStepKeepsPeak]_vars

\* 6 -> 6: the step that finds the cycle meets the peak again and leaves it
C23_Witness ==
    /\ EndedByStep
    /\ seed = 6
    /\ traj = <<6, 6>>
    /\ result.ended = "cycle_1"
    /\ result.peak = 6
    /\ result.peak_step = 0

(***************************************************************************)
(* C24.  run_aliquot_verify reports a cycle at the first step at which an  *)
(* earlier value of the trajectory recurs, and the N of cycle_<N> is the   *)
(* minimal period of the cycle entered: value(step) = value(step - N), the *)
(* N values from step - N on are pairwise distinct and each is the         *)
(* proper-divisor sum of the one before; also when a tail that is not      *)
(* periodic comes before the cycle.                                        *)
(***************************************************************************)
\* the values t[a .. b] are pairwise distinct
Distinct(t, a, b) == \A j, k \in a .. b : j # k => t[j] # t[k]

\* no value recurred before the last one: the run stops at the first recurrence
C24_FirstRecurrence ==
    (prog = "run_aliquot_verify" /\ traj # << >>) =>
        /\ Distinct(traj, 1, Len(traj) - 1)
        /\ (pc = "returned" /\ result.ended \notin {"terminated", "step_limit"}) =>
               \E k \in 1 .. Len(traj) - 1 : traj[k] = Last(traj)
        /\ (pc = "returned" /\ result.ended = "step_limit") =>
               Distinct(traj, 1, Len(traj))

C24_Period ==
    (prog = "run_aliquot_verify" /\ pc = "returned"
        /\ result.ended \notin {"terminated", "step_limit"}) =>
        \E N \in 1 .. result.steps :
            /\ result.ended = "cycle_" \o ToString(N)
            /\ result.steps = Len(traj) - 1
            /\ traj[result.steps + 1] = traj[result.steps + 1 - N]
            /\ Distinct(traj, result.steps + 1 - N, result.steps)
            /\ \A k \in result.steps + 1 - N .. result.steps :
                  traj[k + 1] = ProperDivisorSum(traj[k])
            /\ \A M \in 1 .. N - 1 : traj[result.steps + 1] # traj[result.steps + 1 - M]

C24_MinimalPeriod == C24_FirstRecurrence /\ C24_Period

\* 562 -> 284 -> 220 -> 284: the tail 562, then the amicable pair
C24_Witness ==
    /\ prog = "run_aliquot_verify"
    /\ pc = "returned"
    /\ traj = <<562, 284, 220, 284>>
    /\ result.ended = "cycle_2"
    /\ result.steps = 3

(***************************************************************************)
(* C25.  For every seed >= 1 and every budget run_aliquot(seed, steps)     *)
(* and run_aliquot_verify(seed, steps) report the same peak and peak_step, *)
(* and the same final value whenever run_aliquot_verify ends with          *)
(* step_limit; once run_aliquot has reached a value <= 1 it stays at 0 for *)
(* all remaining steps.                                                    *)
(***************************************************************************)
C25_SamePeak ==
    (prog = "run_aliquot" /\ seed >= 1 /\ pc = "returned") =>
        /\ result.peak = run_aliquot_verify(seed, max_steps).peak
        /\ result.peak_step = run_aliquot_verify(seed, max_steps).peak_step
        /\ result.peak_bits = run_aliquot_verify(seed, max_steps).peak_bits
        /\ run_aliquot_verify(seed, max_steps).ended = "step_limit" =>
              result.final = run_aliquot_verify(seed, max_steps).final
        /\ result.steps = max_steps
        /\ Len(traj) = max_steps + 1

C25_StaysAtZero ==
    (prog = "run_aliquot" /\ seed >= 1) =>
        \A k \in 1 .. Len(traj) : traj[k] <= 1 => \A j \in k + 1 .. Len(traj) : traj[j] = 0

C25_DriversAgree == C25_SamePeak /\ C25_StaysAtZero

\* 7 -> 1 -> 0 -> 0 -> 0 -> 0, where run_aliquot_verify returns after one step
C25_Witness ==
    /\ prog = "run_aliquot"
    /\ pc = "returned"
    /\ seed = 7
    /\ traj = <<7, 1, 0, 0, 0, 0>>
    /\ result.peak = 7
    /\ run_aliquot_verify(7, 5).ended = "terminated"
    /\ run_aliquot_verify(7, 5).steps = 1

(***************************************************************************)
(* C26.  Within one attempt of the divisor search, for every modulus       *)
(* m > 1 and every choice of c and of the starting point x, the loop       *)
(* "while d == 1" is left after finitely many rounds, at most m: the two   *)
(* pointers coincide by then at the latest, and the gcd is m when they do. *)
(***************************************************************************)
C26_LoopExits ==
    prog \in {"pollard_rho", "rho"} =>
        /\ pointers.n > 1
        /\ pointers.rounds <= pointers.n
        /\ (pc = "loop" /\ pointers.d = 1) => pointers.rounds < pointers.n
        /\ (pointers.rounds >= 1 /\ pointers.x = pointers.y) => pointers.d = pointers.n
        /\ pc = "done" => /\ pointers.d # 1
                          /\ pointers.rounds >= 1
                          /\ pointers.n % pointers.d = 0

\* a loop left because the pointers met: x = 2, c = 1 modulo 1681 = 41^2
C26_Witness ==
    /\ prog = "rho"
    /\ pc = "done"
    /\ pointers.n = 1681
    /\ pointers.c = 1
    /\ pointers.x = pointers.y
    /\ pointers.d = 1681
    /\ pointers.rounds > 1

(***************************************************************************)
(* C27.  Every call that factorize makes to pollard_rho passes a composite *)
(* m > 1 without a prime factor in 2 .. 37: the search never runs on 1 or  *)
(* on a prime, and the shortcuts "return 2" and "return 3" of pollard_rho  *)
(* are not reachable from factorize.                                       *)
(***************************************************************************)
NoSmallFactor(m) == \A i \in 1 .. Len(small) : m % small[i] # 0

\* the numbers rec is or will be called on have no small prime factor, so no
\* call of pollard_rho can take a shortcut; the search runs on a composite
C27_PendingCalls ==
    (prog \in Drivers \cup {"factorize"} /\ pc \in {"rec", "rho"}) =>
        /\ \A i \in 1 .. Len(stack) : stack[i] > 1 /\ NoSmallFactor(stack[i])
        /\ pc = "rho" => /\ rho_n > 1
                         /\ ~TrialPrime(rho_n)
                         /\ NoSmallFactor(rho_n)
                         /\ rho_n % 2 # 0 /\ rho_n % 3 # 0

\* a step of rec that calls pollard_rho enters its loop: no shortcut returns
C27_NoShortcut ==
    (prog \in Drivers \cup {"factorize"} /\ pc = "rec" /\ stack # << >>
        /\ Head(stack) # 1 /\ ~is_probable_prime(Head(stack)) /\ pc' # "done") =>
        /\ pc' = "rho"
        /\ rho_n' = Head(stack)
        /\ stack' = stack

C27_RhoOnComposites == [](C27_PendingCalls) /\ [][C27_NoShortcut]_vars

\* the search runs on 1763 = 41 * 43, what the trial divisions leave of 3526
C27_Witness ==
    /\ prog = "factorize"
    /\ pc = "rho"
    /\ arg = 3526
    /\ rho_n = 1763
    /\ res = (2 :> 1)

(***************************************************************************)
(* C28.  In factorize_trial_then_pollard_rho the wheel that starts at 41   *)
(* with the steps 2, 4, 2, 4, ... visits every integer >= 41 coprime to 6, *)
(* in order, as long as the loop runs; every f it records as a factor is   *)
(* prime; and when the loop is left because f * f > n, the residual n is 1 *)
(* or a prime.                                                             *)
(***************************************************************************)
\* the integers of a .. b coprime to 6
Candidates(a, b) == {j \in a .. b : j % 2 # 0 /\ j % 3 # 0}

\* the number of candidates from 41 below the candidate j
WheelIndex(j) == IF j % 6 = 5 THEN 2 * ((j - 41) \div 6) ELSE 2 * ((j - 43) \div 6) + 1

\* the state in which the wheel starts on v, after the small primes
WheelStart(v) ==
    [n |-> trial_small(v, empty_dict, 1).n, fac |-> trial_small(v, empty_dict, 1).fac,
     f |-> 41, step |-> 2]

\* w is the state in which the loop started in s0 is left
WheelVisits(w, s0) ==
    /\ w.f \in Candidates(41, w.f)
    /\ \A j \in Candidates(41, min(w.f, 41 + MaxWheel)) :
          wheel_rounds(s0, WheelIndex(j)).f = j
    /\ wheel_rounds(s0, WheelIndex(w.f)) = w
    /\ w.f * w.f > w.n \/ w.f > limit

WheelFactors(w, s0) ==
    /\ \A p \in (DOMAIN w.fac) \ (DOMAIN s0.fac) :
          p >= 41 /\ p <= limit /\ TrialPrime(p) /\ s0.n % p = 0
    /\ w.f * w.f > w.n => (w.n = 1 \/ TrialPrime(w.n))
    /\ w.n * Product(w.fac) = s0.n * Product(s0.fac)

C28_Wheel ==
    (prog = "factorize_trial_then_pollard_rho" /\ pc = "done" /\ arg >= 2) =>
        /\ WheelVisits(wheel(trial_small(arg, empty_dict, 1)), WheelStart(arg))
        /\ WheelFactors(wheel(trial_small(arg, empty_dict, 1)), WheelStart(arg))

\* 107113 = 43 * 47 * 53: the wheel records 43 and 47 and is left at 49 with
\* the residual 53
C28_Witness ==
    /\ prog = "factorize_trial_then_pollard_rho"
    /\ pc = "done"
    /\ arg = 107113
    /\ wheel(trial_small(arg, empty_dict, 1)).f = 49
    /\ wheel(trial_small(arg, empty_dict, 1)).n = 53
    /\ DOMAIN wheel(trial_small(arg, empty_dict, 1)).fac = {43, 47}
    /\ res = (43 :> 1) @@ (47 :> 1) @@ (53 :> 1)

(***************************************************************************)
(* C29.  run_seed of analyze_all.py applies exactly min(steps, step_limit) *)
(* transitions, steps of them when no limit is given, and never stops      *)
(* early; its computed_status is "terminated" exactly when the final value *)
(* is 0, 1 or a prime, and "open" otherwise: a prime final value counts as *)
(* terminal although the run has not descended to 0, and a cycle is never  *)
(* reported.                                                               *)
(***************************************************************************)
RunSeedReturned == prog = "run_seed" /\ pc = "returned"

C29_Transitions ==
    RunSeedReturned =>
        /\ step_limit = << >> => result.steps_done = max_steps
        /\ step_limit # << >> =>
              result.steps_done = IF step_limit[1] < max_steps THEN step_limit[1]
                                  ELSE max_steps
        /\ Len(traj) = result.steps_done + 1
        /\ \A k \in 1 .. result.steps_done : traj[k + 1] = ProperDivisorSum(traj[k])
        /\ result.final = traj[result.steps_done + 1]
        /\ result.steps_req = max_steps

C29_Status ==
    RunSeedReturned =>
        /\ result.computed_status \in {"terminated", "open"}
        /\ result.computed_status = "terminated"
              <=> (result.final = 0 \/ result.final = 1 \/ TrialPrime(result.final))
        /\ "ended" \notin DOMAIN result

C29_RunSeed == C29_Transitions /\ C29_Status

\* 10 -> 8 -> 7 cut short by step_limit = 2: the prime 7 is final and terminal
C29_Witness ==
    /\ RunSeedReturned
    /\ traj = <<10, 8, 7>>
    /\ step_limit = <<2>>
    /\ max_steps > 2
    /\ result.final = 7
    /\ result.computed_status = "terminated"

====
